---- MODULE Spec2Model ----
(***************************************************************************)
(* packwiz: the Modrinth .mrpack import batch (modrinth/import.go), the   *)
(* record file writer (core/mod.go), the modify command (cmd/modify.go),   *)
(* the diff command and the validate command (cmd/validate.go), modelled   *)
(* as one state machine over a pack on disk.                               *)
(***************************************************************************)
EXTENDS Integers, Sequences, FiniteSets, TLC

(***************************************************************************)
(* Bounds of the model                                                     *)
(***************************************************************************)
\* number of sha512 hashes listed by the bundle manifest
NumRefs == 11
\* number of injected failures (remote errors, I/O errors, panics) per run
MaxFaults == 1

(***************************************************************************)
(* Program constants                                                       *)
(***************************************************************************)
\* import.go:853  maxRetries := 3
maxRetries == 3
\* import.go:741  if successCount%10 == 0
CheckpointEvery == 10

(***************************************************************************)
(* The remote catalog and the bundle                                       *)
(***************************************************************************)
\* the sha512 hashes of the manifest files (modrinthIndex.Files)
ManifestHashes == 1..NumRefs
\* a hash the lookup may answer although no manifest file carries it
PhantomHash == NumRefs + 1
AllHashes == 1..(NumRefs + 1)
\* a manifest hash the catalog may not know (LookupMiss)
MissCandidates == {NumRefs}

\* HashResponse.ProjectID of the version a hash resolves to: hashes 1 and 2
\* are two versions of the same project, hashes 5 and 6 likewise, and the
\* unrequested hash is a version of project 3
ProjOf(h) == IF h = 2 THEN 1 ELSE IF h = 6 THEN 5 ELSE IF h = NumRefs + 1 THEN 3 ELSE h
\* HashResponse.ID of the version a hash resolves to
VersionOf(h) == 100 + h
AllProjects == {ProjOf(h) : h \in AllHashes}
\* project.Title and Mod.Name, as the bytes of the string ("B" is 66, "d" is
\* 100): projects 3 and 4 share a display name, and so do projects 7 and 8;
\* the names of projects 1, 5 and 9 start with an upper-case letter, the others
\* with a lower-case one, and the name of project 11 extends that of project 3
NameOf(p) ==
    LET q == IF p = 4 THEN 3 ELSE IF p = 8 THEN 7 ELSE p IN
    IF q = 11 THEN <<100, 97>>
    ELSE IF q % 4 = 1 THEN <<65 + q>> ELSE <<97 + q>>
\* file.URL of a version file with the given filename (0 is the empty string)
UrlOf(filename) == 2000 + filename
\* the version an already installed record carries before the batch
OldVersion(p) == p

\* projects that may already be installed in the pack before the command
PreinstallCandidates == {1, 3}

\* File records of a version (modrinthApi.File): filename, primary flag and
\* the declared hash (algorithm "" when the file declares none)
VersionFiles(v) ==
    IF v % 4 = 0
    THEN << [filename |-> 3 * v,     primary |-> FALSE, algo |-> "sha1",   hash |-> <<1, v>>],
            [filename |-> 3 * v + 1, primary |-> TRUE,  algo |-> "sha512", hash |-> <<2, v>>] >>
    ELSE IF v % 4 = 1
    THEN << [filename |-> 3 * v,     primary |-> FALSE, algo |-> "sha512", hash |-> <<1, v>>],
            [filename |-> 3 * v + 1, primary |-> FALSE, algo |-> "sha1",   hash |-> <<2, v>>] >>
    ELSE IF v % 4 = 2
    THEN << [filename |-> 3 * v,     primary |-> TRUE,  algo |-> "sha1",   hash |-> <<1, v>>],
            [filename |-> 3 * v + 1, primary |-> TRUE,  algo |-> "sha512", hash |-> <<2, v>>] >>
    ELSE << [filename |-> 3 * v,     primary |-> FALSE, algo |-> "sha512", hash |-> <<1, v>>],
            [filename |-> 3 * v + 1, primary |-> TRUE,  algo |-> "sha1",   hash |-> <<2, v>>],
            [filename |-> 3 * v + 2, primary |-> TRUE,  algo |-> "sha512", hash |-> <<3, v>>] >>

\* error messages the catalog client returns, as word sequences
ErrMsgs == { <<"status", "429">>, <<"Too Many Requests">>,
             <<"connection", "refused">>, <<"status", "404">> }
\* import.go:866  the rate limit indicators
RateLimitIndicators == {"429", "rate limit", "Rate limit", "too many requests", "Too Many Requests"}

(***************************************************************************)
(* core/mod.go: the metadata record and its serialisation                  *)
(***************************************************************************)
NoOption == [present |-> FALSE, optional |-> FALSE, description |-> "", default |-> FALSE]

\* what is at a path on disk: nothing, a complete record, or the remains of
\* a write that failed after os.Create truncated the file
NoFile == [kind |-> "absent", project |-> 0, version |-> 0, filename |-> 0,
           side |-> "", pin |-> FALSE, dlFormat |-> "", dlHash |-> <<>>,
           platforms |-> <<>>, option |-> NoOption,
           name |-> <<>>, url |-> 0, update |-> {}]
TornFile == [NoFile EXCEPT !.kind = "torn"]

SideCode(s) == CASE s = "" -> 0 [] s = "both" -> 1 [] s = "client" -> 2
                 [] s = "server" -> 3 [] OTHER -> 4
AlgoCode(a) == CASE a = "" -> 0 [] a = "sha1" -> 1 [] a = "sha256" -> 2
                 [] a = "sha512" -> 3 [] OTHER -> 4
RECURSIVE PlatformCode(_)
PlatformCode(ps) ==
    IF ps = <<>> THEN 0
    ELSE (CASE Head(ps) = "macos" -> 1 [] Head(ps) = "linux" -> 2 [] OTHER -> 3)
         + 4 * PlatformCode(Tail(ps))
DescCode(d) == CASE d = "" -> 0 [] d = "d1" -> 1 [] OTHER -> 2
\* the [option] table is encoded only when the pointer is non-nil
\* (toml:"option,omitempty"); description and default are omitempty inside
OptionCode(o) == IF ~o.present THEN 0
                 ELSE 1 + (IF o.optional THEN 1 ELSE 0)
                        + (IF o.default THEN 2 ELSE 0)
                        + 4 * DescCode(o.description)

\* the [update] tables the record carries, by updater name
UpdateCode(u) == (IF "modrinth" \in u THEN 1 ELSE 0) + (IF "curseforge" \in u THEN 2 ELSE 0)
                 + (IF "github" \in u THEN 4 ELSE 0)
\* the encoded record, field by field (toml.NewEncoder(w).Encode(m))
Encode(m) == << SideCode(m.side), IF m.pin THEN 1 ELSE 0, OptionCode(m.option),
                PlatformCode(m.platforms), AlgoCode(m.dlFormat),
                m.version, m.project, m.filename, m.url, UpdateCode(m.update) >>
             \o m.dlHash \o <<-1>> \o m.name

\* sha256 of the bytes written: a collision-free digest of the encoding,
\* and the digest of the empty file for a file that holds no record
Digest(m) == IF m.kind = "record" THEN <<0>> \o Encode(m) ELSE <<0>>

\* Mod.Write on success: the format and hash of the file just written
ModWriteDeclared(m) == [format |-> m.dlFormat, hash |-> m.dlHash]
ModWrite(m) == [format |-> "sha256", hash |-> Digest(m)]

\* strings.TrimSpace and strings.ToLower on the strings the model uses
TrimSpace(str) == CASE str = " client " -> "client" [] str = " server " -> "server"
                    [] str = " " -> "" [] OTHER -> str
ToLower(str) == CASE str = "MacOS" -> "macos" [] str = "LINUX" -> "linux" [] OTHER -> str

\* main.go:79  ValidClientPlatforms
ValidClientPlatforms == {"macos", "linux", "windows"}

\* main.go:177-190  ValidateSide: TRUE when the side is accepted
ValidateSide(side) == side # "" /\ side \in {"client", "server", "both"}

\* main.go:193-199  NormalizeSide
NormalizeSide(side) == IF TrimSpace(side) = "both" THEN "both" ELSE TrimSpace(side)

\* main.go:202-227  ValidateClientPlatforms: TRUE when every platform is accepted
ValidateClientPlatforms(platforms) ==
    \A i \in 1..Len(platforms) :
        platforms[i] = "" \/ ToLower(TrimSpace(platforms[i])) \in ValidClientPlatforms

\* main.go:230-256  NormalizeClientPlatforms
RECURSIVE NormalizeFrom(_, _)
NormalizeFrom(platforms, normalized) ==
    IF platforms = <<>> THEN normalized
    ELSE LET pl == ToLower(TrimSpace(Head(platforms)))
             seen == {normalized[i] : i \in 1..Len(normalized)}
         IN  IF Head(platforms) # "" /\ pl \notin seen /\ pl \in ValidClientPlatforms
             THEN NormalizeFrom(Tail(platforms), Append(normalized, pl))
             ELSE NormalizeFrom(Tail(platforms), normalized)
NormalizeClientPlatforms(platforms) == NormalizeFrom(platforms, <<>>)

(***************************************************************************)
(* core: the index (spec section 4.1) and the pack file                    *)
(***************************************************************************)
\* import.go:1040  the record of a project is stored under its slug
MetaPath(p) == <<"mods", p>>
Paths == {MetaPath(p) : p \in AllProjects}

NoEntry == [present |-> FALSE, hashFormat |-> "", hash |-> <<>>, metafile |-> FALSE]

\* Index.RefreshFileWithHash: insert or overwrite the entry of a path
RefreshFileWithHash(idx, path, format, hash, markAsMetaFile) ==
    [idx EXCEPT ![path] = [present |-> TRUE, hashFormat |-> format,
                           hash |-> hash, metafile |-> markAsMetaFile]]

RECURSIVE SumSeq(_)
SumSeq(q) == IF q = <<>> THEN 0 ELSE (Head(q) + 3 * SumSeq(Tail(q))) % 100003

RECURSIVE IndexSum(_, _)
IndexSum(idx, ps) ==
    IF ps = {} THEN 0
    ELSE LET p == CHOOSE x \in ps : TRUE
             e == idx[MetaPath(p)]
         IN  (IF e.present THEN (p * (1 + AlgoCode(e.hashFormat) + 7 * SumSeq(e.hash))) % 100003 ELSE 0)
             + IndexSum(idx, ps \ {p})
\* Pack.UpdateIndexHash: the hash of the index file as persisted
IndexHash(idx) == IndexSum(idx, AllProjects) % 100003

\* the record a pack holds for a project installed before the command
OldRecord(p) ==
    [kind |-> "record", project |-> p, version |-> OldVersion(p), filename |-> p,
     side |-> "both", pin |-> FALSE, dlFormat |-> "sha1", dlHash |-> <<3, p>>,
     platforms |-> <<>>, option |-> NoOption,
     name |-> NameOf(p), url |-> UrlOf(p), update |-> {"modrinth"}]

\* getInstalledProjectIDs: the update-source project ID of every metadata
\* record the index lists and that loads
getInstalledProjectIDs(idx, disk) ==
    {disk[pa].project : pa \in {q \in Paths : idx[q].present /\ idx[q].metafile
                                              /\ disk[q].kind = "record"}}

(***************************************************************************)
(* modrinth/import.go: helpers of the batch                                *)
(***************************************************************************)
\* import.go:886  containsAny, on messages split into words
containsAny(msg, substrings) == \E i \in 1..Len(msg) : msg[i] \in substrings

\* import.go:700-707  linear search of the installed project IDs
projectAlreadyInstalled_never(installed, projectID) == FALSE
projectAlreadyInstalled_first(installed, projectID) ==
    installed # {} /\ projectID = (CHOOSE x \in installed : \A y \in installed : x <= y)
projectAlreadyInstalled(installed, projectID) == \E installedID \in installed : installedID = projectID

\* import.go:1053  findPrimaryFile: 0 when the version has no file
findPrimaryFile_lastPrimary(fs) ==
    IF Len(fs) = 0 THEN 0
    ELSE IF \E i \in 1..Len(fs) : fs[i].primary
         THEN CHOOSE i \in 1..Len(fs) : fs[i].primary /\ \A j \in (i + 1)..Len(fs) : ~fs[j].primary
         ELSE 1
findPrimaryFile(fs) ==
    IF Len(fs) = 0 THEN 0
    ELSE IF \E i \in 1..Len(fs) : fs[i].primary
         THEN CHOOSE i \in 1..Len(fs) : fs[i].primary /\ \A j \in 1..(i - 1) : ~fs[j].primary
         ELSE 1

\* getBestHash: a hash the file declares, algorithm "" when it declares none
getBestHash(f) == [algorithm |-> f.algo, hash |-> f.hash]

\* import.go:1019-1030  the record createFileMetaWithSide builds
NewModMeta_localHash(projectID, versionID, f, customSide) ==
    [kind |-> "record", project |-> projectID, version |-> versionID,
     filename |-> f.filename, side |-> customSide, pin |-> FALSE,
     dlFormat |-> "sha256", dlHash |-> <<0>>,
     platforms |-> <<>>, option |-> NoOption,
     name |-> NameOf(projectID), url |-> UrlOf(f.filename), update |-> {"modrinth"}]
NewModMeta(projectID, versionID, f, customSide) ==
    [kind |-> "record", project |-> projectID, version |-> versionID,
     filename |-> f.filename, side |-> customSide, pin |-> FALSE,
     dlFormat |-> getBestHash(f).algorithm, dlHash |-> getBestHash(f).hash,
     platforms |-> <<>>, option |-> NoOption,
     name |-> NameOf(projectID), url |-> UrlOf(f.filename), update |-> {"modrinth"}]

\* getSide: the side of a project from its client/server support fields
getSide(p) == CASE p % 3 = 0 -> "client" [] p % 3 = 1 -> "both" [] OTHER -> "server"

\* import.go:781  failedCount := len(versionMap) - successCount - skippedCount
failedCount_noSkips(total, succ, skipped) == total - succ
failedCount(total, succ, skipped) == total - succ - skipped

\* import.go:741  the periodic checkpoint condition
checkpointDue(succ) == succ % CheckpointEvery = 0

\* import.go:683  the loop ranges over the lookup result, not over the hashes sent
rangeSet_hashes(vm, hashes) == hashes \cup vm
rangeSet(vm, hashes) == vm

\* import.go:683  a map is ranged over in an unspecified order
RECURSIVE Ascending(_)
Ascending(S) == IF S = {} THEN <<>>
                ELSE LET m == CHOOSE x \in S : \A y \in S : x <= y
                     IN  <<m>> \o Ascending(S \ {m})
RECURSIVE Reverse(_)
Reverse(q) == IF q = <<>> THEN <<>> ELSE Reverse(Tail(q)) \o <<Head(q)>>
RangeOrders(S) == {Ascending(S), Reverse(Ascending(S))}

(***************************************************************************)
(* State                                                                   *)
(***************************************************************************)
VARIABLES
    cmd,               \* the command this process runs
    pc,                \* position of the main goroutine
    exitCode,          \* -1 while the process runs, else its exit code
    exitWay,           \* how the process ended
    installed0,        \* the projects the pack held before the command
    manifest,          \* sha512 hashes of the bundle's manifest files
    files,             \* record files on disk, by path
    index,             \* the in-memory Index
    persisted,         \* the Index as last written to disk
    packHash,          \* the index hash recorded in the pack file on disk
    versionMap,        \* hashes the batched lookup resolved
    todo,              \* the part of versionMap the range loop has not visited
    cur,               \* the hash of the current iteration (0: none)
    attempt,           \* getProjectWithRateLimit's loop variable
    wr,                \* format and hash returned by the last Mod.Write
    installedProjects, \* project IDs installed before the loop
    successCount,
    skippedCount,
    processedCount,
    sig,               \* position of the signal goroutine
    doneChan,          \* TRUE once doneChan is closed
    faults,            \* number of failures injected so far
    ioFailed,          \* a write of the Index or of the pack file has failed
    summary,           \* the counts printed by the import summary
    outcome,           \* what the loop did with each hash
    installedSeq,      \* the hashes installed successfully, in order
    lastCall,          \* the last project-detail request and its answer
    modPath,           \* modify: the path FindMod returned
    modData,           \* modify: the record loaded and changed
    flags,             \* modify: the flags given on the command line
    env,               \* determineSideFromEnv: the environment of a manifest file
    sideResult,        \* determineSideFromEnv: what it returned
    currentMods,       \* diff: the map getCurrentModrinthMods returned
    mrpackMods,        \* diff: the map getMrpackModsWithInfo returned
    diffOut,           \* diff: the lists compareMods returned
    prevOut,           \* diff: the lists of the previous run of the command
    run,               \* diff: 1 in the first run of the command, 2 in the second
    sources,           \* diff: the counts by source getCurrentModrinthMods returned
    counted,           \* diff: the count each record of the pack went to
    pack,              \* validate: the pack.toml loaded
    issues,            \* validate: number of errors reported
    warnings           \* validate: number of warnings reported

modVars == << modPath, modData, flags >>
sideVars == << env, sideResult >>
validateVars == << pack, issues, warnings >>
diffVars == << currentMods, mrpackMods, diffOut, prevOut, run, sources, counted >>
batchVars == << installed0, manifest, versionMap, todo, cur, attempt,
                installedProjects, successCount, skippedCount, processedCount,
                sig, doneChan, outcome, installedSeq, lastCall, summary >>

vars == << diffVars, validateVars, sideVars, modVars, cmd, pc, exitCode, exitWay, installed0, manifest, files, index,
           persisted, packHash, versionMap, todo, cur, attempt, wr,
           installedProjects, successCount, skippedCount, processedCount,
           sig, doneChan, faults, ioFailed, outcome, installedSeq, lastCall,
           summary >>

NoSummary == [printed |-> FALSE, installed |-> 0, skipped |-> 0, failed |-> 0]
NoCall == [fn |-> "none", n |-> 0, res |-> "none", msg |-> <<>>, files |-> "unset"]
NoWrite == [format |-> "", hash |-> <<>>]

\* the pack on disk before the command: records, Index and pack file agree
InitFiles(inst) == [pa \in Paths |-> IF \E p \in inst : pa = MetaPath(p)
                                     THEN OldRecord(CHOOSE p \in inst : pa = MetaPath(p))
                                     ELSE NoFile]
InitIndex(inst) == [pa \in Paths |-> IF InitFiles(inst)[pa].kind = "record"
                                     THEN [present |-> TRUE,
                                           hashFormat |-> ModWrite(InitFiles(inst)[pa]).format,
                                           hash |-> ModWrite(InitFiles(inst)[pa]).hash,
                                           metafile |-> TRUE]
                                     ELSE NoEntry]

\* a flag of the command line: not given, or given with a value
Unset == [changed |-> FALSE, val |-> ""]
Given(v) == [changed |-> TRUE, val |-> v]
NoFlags == [side |-> Unset, platforms |-> [changed |-> FALSE, val |-> <<>>],
            pin |-> [changed |-> FALSE, val |-> FALSE],
            optional |-> [changed |-> FALSE, val |-> FALSE],
            description |-> Unset,
            default |-> [changed |-> FALSE, val |-> FALSE]]

InitProcess ==
    /\ exitCode = -1
    /\ exitWay = "none"
    /\ versionMap = {}
    /\ todo = <<>>
    /\ cur = 0
    /\ attempt = 0
    /\ wr = NoWrite
    /\ installedProjects = {}
    /\ successCount = 0
    /\ skippedCount = 0
    /\ processedCount = 0
    /\ sig = "off"
    /\ doneChan = FALSE
    /\ faults = 0
    /\ ioFailed = FALSE
    /\ outcome = [h \in AllHashes |-> "none"]
    /\ installedSeq = <<>>
    /\ lastCall = NoCall
    /\ summary = NoSummary
    /\ modPath = MetaPath(0)
    /\ modData = NoFile
    /\ flags = NoFlags
InitCommon ==
    /\ persisted = index
    /\ packHash = IndexHash(index)
    /\ InitProcess

\* part_000:127-133  ModInfo; an absent map entry has present FALSE, the
\* empty string is 0 for names and file names, and a version ID is the
\* sequence of the IDs it is formatted from
NoMod == [present |-> FALSE, ProjectID |-> 0, VersionID |-> <<>>, ProjectName |-> <<>>,
          FileName |-> 0, Side |-> ""]
NoMods == [p \in AllProjects |-> NoMod]
NoDiff == [missing |-> <<>>, extra |-> <<>>, different |-> <<>>, compared |-> FALSE]
\* part_000:136-141  ModSources, all counts zero
NoSources == [Modrinth |-> 0, CurseForge |-> 0, URL |-> 0, Other |-> 0]
NoCounted == [pa \in Paths |-> "unset"]
\* the pack.toml of a process that is not validate
NoValidateRun ==
    /\ pack = [Name |-> "pack", mcVersion |-> "1.20", versions |-> 1]
    /\ issues = 0 /\ warnings = 0
NoDiffRun ==
    /\ currentMods = NoMods /\ mrpackMods = NoMods
    /\ diffOut = NoDiff /\ prevOut = NoDiff /\ run = 1
    /\ sources = NoSources /\ counted = NoCounted

\* the environment of a manifest file (FileEnv), nil when the file has none
NilEnv == [nil |-> TRUE, Client |-> "", Server |-> ""]
NoSideResult == [side |-> "", shouldSkip |-> FALSE, warning |-> <<>>, returned |-> FALSE]

InitImport ==
    /\ cmd = "import"
    /\ pc = "start"
    /\ installed0 \in {{}, PreinstallCandidates}
    /\ manifest \in {ManifestHashes, {}}
    /\ files = InitFiles(installed0)
    /\ index = InitIndex(installed0)
    /\ InitCommon
    /\ env = NilEnv /\ sideResult = NoSideResult
    /\ NoDiffRun
    /\ NoValidateRun

\* the records modify may find for project 1: as installed, pinned and
\* client-only, optional with a description, and one whose [option] table is
\* present with default values only
ModifyRecords ==
    {OldRecord(1),
     [OldRecord(1) EXCEPT !.pin = TRUE, !.side = "client", !.platforms = <<"windows">>],
     [OldRecord(1) EXCEPT !.side = "",
                          !.option = [present |-> TRUE, optional |-> TRUE,
                                      description |-> "d1", default |-> TRUE]],
     [OldRecord(1) EXCEPT !.option = [NoOption EXCEPT !.present = TRUE]]}

InitModify ==
    /\ cmd = "modify"
    /\ pc = "m_start"
    /\ installed0 = PreinstallCandidates
    /\ manifest = {}
    /\ \E r \in ModifyRecords : files = [InitFiles(installed0) EXCEPT ![MetaPath(1)] = r]
    /\ index = [pa \in Paths |-> IF files[pa].kind = "record"
                                  THEN [present |-> TRUE, hashFormat |-> ModWrite(files[pa]).format,
                                        hash |-> ModWrite(files[pa]).hash, metafile |-> TRUE]
                                  ELSE NoEntry]
    /\ InitCommon
    /\ env = NilEnv /\ sideResult = NoSideResult
    /\ NoDiffRun
    /\ NoValidateRun

Init == InitImport \/ InitModify

(***************************************************************************)
(* import.go:563-786  importCmd.Run                                        *)
(***************************************************************************)
Exit(code, way) ==
    /\ pc' = "exited"
    /\ exitCode' = code
    /\ exitWay' = way

\* import.go:816-849  what lookupVersionsByHash may answer for the hashes sent:
\* every hash resolved, or some hash unknown and an unrequested key present
LookupAnswers(hashes) == {hashes, (hashes \ MissCandidates) \cup {PhantomHash}}

\* import.go:634-649  saveProgress, with the outcome w of its writes
saveProgress(w) ==
    IF successCount > 0
    THEN /\ w # "ok" => faults < MaxFaults
         /\ faults' = IF w = "ok" THEN faults ELSE faults + 1
         /\ ioFailed' = (ioFailed \/ w # "ok")
         /\ persisted' = IF w = "indexfail" THEN persisted ELSE index
         /\ packHash' = IF w = "ok" THEN IndexHash(index) ELSE packHash
    ELSE /\ w = "ok"
         /\ UNCHANGED << faults, ioFailed, persisted, packHash >>

WriteResults == {"ok", "indexfail", "packfail"}

\* import.go:602-680  collect the hashes, look them up, start the listener
Lookup ==
    /\ cmd = "import" /\ pc = "start"
    /\ \/ /\ manifest = {}
          /\ Exit(0, "nohashes")
          /\ UNCHANGED << versionMap, todo, installedProjects, sig, faults >>
       \/ /\ manifest # {}
          /\ faults < MaxFaults
          /\ faults' = faults + 1
          /\ Exit(1, "lookupfail")
          /\ UNCHANGED << versionMap, todo, installedProjects, sig >>
       \/ /\ manifest # {}
          /\ \E answer \in LookupAnswers(manifest) :
               /\ versionMap' = answer
               /\ \E ord \in RangeOrders(rangeSet(answer, manifest)) : todo' = ord
          /\ installedProjects' = getInstalledProjectIDs(index, files)
          /\ sig' = "idle"
          /\ pc' = "loop"
          /\ UNCHANGED << exitCode, exitWay, faults >>
    /\ UNCHANGED << diffVars, validateVars, sideVars, modVars, summary, cmd, installed0, manifest, files, index, persisted, packHash,
                    cur, attempt, wr, successCount, skippedCount, processedCount,
                    doneChan, ioFailed, outcome, installedSeq, lastCall >>

\* import.go:683-713  next iteration: manifest file search and duplicate skip
LoopNext ==
    /\ cmd = "import" /\ pc = "loop" /\ todo # <<>>
    /\ LET h == Head(todo) IN
         /\ todo' = Tail(todo)
         /\ processedCount' = processedCount + 1
         /\ lastCall' = NoCall
         /\ IF h \notin manifest
            THEN /\ outcome' = [outcome EXCEPT ![h] = "failed"]
                 /\ UNCHANGED << pc, cur, skippedCount >>
            ELSE IF projectAlreadyInstalled(installedProjects, ProjOf(h))
            THEN /\ skippedCount' = skippedCount + 1
                 /\ outcome' = [outcome EXCEPT ![h] = "skipped"]
                 /\ UNCHANGED << pc, cur >>
            ELSE /\ cur' = h
                 /\ pc' = "fetch"
                 /\ outcome' = [outcome EXCEPT ![h] = "inflight"]
                 /\ UNCHANGED skippedCount
    /\ attempt' = 0
    /\ UNCHANGED << diffVars, validateVars, sideVars, modVars, summary, cmd, exitCode, exitWay, installed0, manifest, files, index,
                    persisted, packHash, versionMap, wr, installedProjects,
                    successCount, sig, doneChan, faults, ioFailed, installedSeq >>

\* the iteration of cur ends in a failure (import.go:717-720, 735-736)
FailCurrent_break ==
    /\ outcome' = [outcome EXCEPT ![cur] = "failed"]
    /\ cur' = 0
    /\ pc' = "final"
FailCurrent ==
    /\ outcome' = [outcome EXCEPT ![cur] = "failed"]
    /\ cur' = 0
    /\ pc' = "loop"

\* import.go:866-870  is the error retried
retryRateLimit_always(msg, att) == att < maxRetries - 1
retryRateLimit(msg, att) ==
    containsAny(msg, RateLimitIndicators) /\ att < maxRetries - 1

\* import.go:856  mrDefaultClient.Projects.Get inside getProjectWithRateLimit:
\* the project, a project lacking a field the loop dereferences, or an error
FetchProject ==
    /\ cmd = "import" /\ pc = "fetch"
    /\ \/ /\ lastCall' = [fn |-> "getProjectWithRateLimit", n |-> attempt + 1,
                          res |-> "ok", msg |-> <<>>, files |-> "unset"]
          /\ UNCHANGED faults
       \/ /\ faults < MaxFaults
          /\ lastCall' = [fn |-> "getProjectWithRateLimit", n |-> attempt + 1,
                          res |-> "nilfield", msg |-> <<>>, files |-> "unset"]
          /\ faults' = faults + 1
       \/ \E msg \in ErrMsgs :
            /\ lastCall' = [fn |-> "getProjectWithRateLimit", n |-> attempt + 1,
                            res |-> "err", msg |-> msg, files |-> "unset"]
            /\ IF retryRateLimit(msg, attempt)
               THEN UNCHANGED faults
               ELSE faults < MaxFaults /\ faults' = faults + 1
    /\ pc' = "fetched"
    /\ UNCHANGED << diffVars, validateVars, sideVars, modVars, summary, cmd, exitCode, exitWay, installed0, manifest, files, index,
                    persisted, packHash, versionMap, todo, cur, attempt, wr,
                    installedProjects, successCount, skippedCount,
                    processedCount, sig, doneChan, ioFailed, outcome,
                    installedSeq >>

\* import.go:857-879 and 717-731  what is done with the answer
HandleFetch ==
    /\ cmd = "import" /\ pc = "fetched"
    /\ lastCall' = NoCall
    /\ IF lastCall.res = "ok"
       THEN /\ pc' = "install"
            /\ attempt' = 0
            /\ UNCHANGED << outcome, cur >>
       ELSE IF lastCall.res = "nilfield"
       THEN /\ pc' = "recover"
            /\ attempt' = 0
            /\ UNCHANGED << outcome, cur >>
       ELSE IF retryRateLimit(lastCall.msg, attempt)
       THEN /\ attempt' = attempt + 1
            /\ pc' = "fetch"
            /\ UNCHANGED << outcome, cur >>
       ELSE /\ FailCurrent
            /\ attempt' = 0
    /\ UNCHANGED << diffVars, validateVars, sideVars, modVars, summary, cmd, exitCode, exitWay, installed0, manifest, files, index,
                    persisted, packHash, versionMap, todo, wr, installedProjects,
                    successCount, skippedCount, processedCount, sig, doneChan,
                    faults, ioFailed, installedSeq >>

\* what the catalog and the file system answer to the rest of one install:
\* the files of the version, the folder lookup and Mod.Write; at most one of
\* them goes wrong
GoodAnswer == [folder |-> "ok", write |-> "ok"]
InstallAnswers ==
    {GoodAnswer,
     [GoodAnswer EXCEPT !.folder = "err"],
     [GoodAnswer EXCEPT !.write = "create_err"],
     [GoodAnswer EXCEPT !.write = "encode_err"]}

\* version.Files as answered
AnsweredFiles(k, v) ==
    CASE k = "empty" -> <<>>
      [] k = "nohash" -> << [filename |-> 3 * v, primary |-> TRUE, algo |-> "", hash |-> <<>>] >>
      [] OTHER -> VersionFiles(v)

\* import.go:977-1048  installVersionWithSide and createFileMetaWithSide up
\* to and including Mod.Write: "ok", or the step that returned the error
InstallError(k, a, v) ==
    IF findPrimaryFile(AnsweredFiles(k, v)) = 0 THEN "nofile"
    ELSE IF getBestHash(AnsweredFiles(k, v)[findPrimaryFile(AnsweredFiles(k, v))]).algorithm = ""
         THEN "nohash"
    ELSE IF a.folder = "err" THEN "folder"
    ELSE IF a.write # "ok" THEN a.write
    ELSE "ok"

\* import.go:723-728  the side handed to the install
importSide(p) == IF getSide(p) = "" THEN "both" ELSE getSide(p)

\* import.go:961-967  Versions.Get, which answers the files of the version
\* ("declared": the files the catalog lists, "empty": none, "nohash": one
\* file that declares no hash), then Projects.Get without any retry
InstallFetch ==
    /\ cmd = "import" /\ pc = "install"
    /\ \/ /\ lastCall' = [fn |-> "Projects.Get", n |-> 1, res |-> "ok", msg |-> <<>>,
                          files |-> "declared"]
          /\ UNCHANGED faults
       \/ /\ faults < MaxFaults
          /\ faults' = faults + 1
          /\ \/ lastCall' = [fn |-> "Versions.Get", n |-> 1, res |-> "err", msg |-> <<>>,
                             files |-> "unset"]
             \/ \E k \in {"empty", "nohash"} :
                  lastCall' = [fn |-> "Projects.Get", n |-> 1, res |-> "ok", msg |-> <<>>,
                               files |-> k]
             \/ \E msg \in ErrMsgs :
                  lastCall' = [fn |-> "Projects.Get", n |-> 1, res |-> "err", msg |-> msg,
                               files |-> "declared"]
    /\ pc' = "fetched2"
    /\ UNCHANGED << diffVars, validateVars, sideVars, modVars, summary, cmd, exitCode, exitWay, installed0, manifest, files, index,
                    persisted, packHash, versionMap, todo, cur, attempt, wr,
                    installedProjects, successCount, skippedCount,
                    processedCount, sig, doneChan, ioFailed, outcome,
                    installedSeq >>

\* import.go:962-973 and 977-1048  return the error, or select the file,
\* build the record and write it
CreateMeta ==
    /\ cmd = "import" /\ pc = "fetched2"
    /\ lastCall' = NoCall
    /\ IF lastCall.res = "err"
       THEN /\ FailCurrent
            /\ UNCHANGED << files, wr, faults >>
       ELSE \E a \in InstallAnswers :
              LET v == VersionOf(cur)
                  p == ProjOf(cur)
                  e == InstallError(lastCall.files, a, v)
                  fs == AnsweredFiles(lastCall.files, v)
                  modMeta == NewModMeta(p, v, fs[findPrimaryFile(fs)], importSide(p))
              IN
              /\ a # GoodAnswer => faults < MaxFaults
              /\ faults' = IF a = GoodAnswer THEN faults ELSE faults + 1
              /\ IF e = "ok"
                 THEN /\ files' = [files EXCEPT ![MetaPath(p)] = modMeta]
                      /\ wr' = ModWrite(modMeta)
                      /\ pc' = "refresh"
                      /\ UNCHANGED << outcome, cur >>
                 ELSE /\ files' = IF e = "encode_err"
                                  THEN [files EXCEPT ![MetaPath(p)] = TornFile]
                                  ELSE files
                      /\ FailCurrent
                      /\ UNCHANGED wr
    /\ UNCHANGED << diffVars, validateVars, sideVars, modVars, summary, cmd, exitCode, exitWay, installed0, manifest, index,
                    persisted, packHash, versionMap, todo, attempt,
                    installedProjects, successCount, skippedCount, processedCount,
                    sig, doneChan, ioFailed, installedSeq >>

\* import.go:1049 and 737-745  refresh the Index entry, count the success
Refresh ==
    /\ cmd = "import" /\ pc = "refresh"
    /\ index' = RefreshFileWithHash(index, MetaPath(ProjOf(cur)), wr.format, wr.hash, TRUE)
    /\ successCount' = successCount + 1
    /\ outcome' = [outcome EXCEPT ![cur] = "installed"]
    /\ installedSeq' = Append(installedSeq, cur)
    /\ pc' = IF checkpointDue(successCount') THEN "checkpoint" ELSE "loop"
    /\ cur' = 0
    /\ wr' = NoWrite
    /\ UNCHANGED << diffVars, validateVars, sideVars, modVars, summary, cmd, exitCode, exitWay, installed0, manifest, files,
                    persisted, packHash, versionMap, todo, attempt,
                    installedProjects, skippedCount, processedCount, sig,
                    doneChan, faults, ioFailed, lastCall >>

\* import.go:741-744  the periodic checkpoint
Checkpoint ==
    /\ cmd = "import" /\ pc = "checkpoint"
    /\ \E w \in WriteResults : saveProgress(w)
    /\ pc' = "loop"
    /\ UNCHANGED << diffVars, validateVars, sideVars, modVars, summary, cmd, exitCode, exitWay, installed0, manifest, files, index,
                    versionMap, todo, cur, attempt, wr, installedProjects,
                    successCount, skippedCount, processedCount, sig, doneChan,
                    outcome, installedSeq, lastCall >>

\* import.go:748-752  the loop is over: close(doneChan), print the summary
LoopEnd ==
    /\ cmd = "import" /\ pc = "loop" /\ todo = <<>>
    /\ doneChan' = TRUE
    /\ pc' = "final"
    /\ summary' = [printed |-> TRUE, installed |-> successCount, skipped |-> skippedCount,
                    failed |-> failedCount(Cardinality(versionMap), successCount, skippedCount)]
    /\ UNCHANGED << diffVars, validateVars, sideVars, modVars, cmd, exitCode, exitWay, installed0, manifest, files, index,
                    persisted, packHash, versionMap, todo, cur, attempt, wr,
                    installedProjects, successCount, skippedCount, processedCount,
                    sig, faults, ioFailed, outcome, installedSeq, lastCall >>

\* import.go:754-784  final Index write, pack hash and pack file
Final ==
    /\ cmd = "import" /\ pc = "final"
    /\ \E w \in WriteResults :
         /\ w # "ok" => faults < MaxFaults
         /\ faults' = IF w = "ok" THEN faults ELSE faults + 1
         /\ ioFailed' = (ioFailed \/ w # "ok")
         /\ persisted' = IF w = "indexfail" THEN persisted ELSE index
         /\ packHash' = IF w = "ok" THEN IndexHash(index) ELSE packHash
         /\ IF w = "ok" THEN Exit(0, "normal") ELSE Exit(1, "fatal")
    /\ UNCHANGED << diffVars, validateVars, sideVars, modVars, summary, cmd, installed0, manifest, files, index, versionMap, todo,
                    cur, attempt, wr, installedProjects, successCount,
                    skippedCount, processedCount, sig, doneChan, outcome,
                    installedSeq, lastCall >>

\* import.go:673-680  the deferred recover of a panic in the loop
Recover ==
    /\ cmd = "import" /\ pc = "recover"
    /\ \E w \in WriteResults : saveProgress(w)
    /\ Exit(0, "panic")
    /\ UNCHANGED << diffVars, validateVars, sideVars, modVars, summary, cmd, installed0, manifest, files, index, versionMap, todo,
                    cur, attempt, wr, installedProjects, successCount,
                    skippedCount, processedCount, sig, doneChan, outcome,
                    installedSeq, lastCall >>

(***************************************************************************)
(* import.go:659-670  the signal goroutine                                 *)
(***************************************************************************)
\* case sig := <-sigChan
SigReceive ==
    /\ cmd = "import" /\ pc # "exited" /\ sig = "idle"
    /\ sig' = "saving"
    /\ UNCHANGED << diffVars, validateVars, sideVars, modVars, summary, cmd, pc, exitCode, exitWay, installed0, manifest, files,
                    index, persisted, packHash, versionMap, todo, cur, attempt,
                    wr, installedProjects, successCount, skippedCount,
                    processedCount, doneChan, faults, ioFailed, outcome,
                    installedSeq, lastCall >>

\* saveProgress() called by the goroutine
SigSave ==
    /\ cmd = "import" /\ pc # "exited" /\ sig = "saving"
    /\ \E w \in WriteResults : saveProgress(w)
    /\ sig' = "saved"
    /\ UNCHANGED << diffVars, validateVars, sideVars, modVars, summary, cmd, pc, exitCode, exitWay, installed0, manifest, files,
                    index, versionMap, todo, cur, attempt, wr, installedProjects,
                    successCount, skippedCount, processedCount, doneChan,
                    outcome, installedSeq, lastCall >>

\* os.Exit(0)
SigExit ==
    /\ cmd = "import" /\ pc # "exited" /\ sig = "saved"
    /\ Exit(0, "signal")
    /\ sig' = "exit"
    /\ UNCHANGED << diffVars, validateVars, sideVars, modVars, summary, cmd, installed0, manifest, files, index, persisted, packHash,
                    versionMap, todo, cur, attempt, wr, installedProjects,
                    successCount, skippedCount, processedCount, doneChan,
                    faults, ioFailed, outcome, installedSeq, lastCall >>

\* case <-doneChan: the goroutine returns
SigReturn ==
    /\ cmd = "import" /\ pc # "exited" /\ sig = "idle" /\ doneChan
    /\ sig' = "returned"
    /\ UNCHANGED << diffVars, validateVars, sideVars, modVars, summary, cmd, pc, exitCode, exitWay, installed0, manifest, files,
                    index, persisted, packHash, versionMap, todo, cur, attempt,
                    wr, installedProjects, successCount, skippedCount,
                    processedCount, doneChan, faults, ioFailed, outcome,
                    installedSeq, lastCall >>

(***************************************************************************)
(* cmd/modify.go:30-214  modifyModProperties                               *)
(***************************************************************************)
SideArgs == {"client", " server ", "both", "bogus"}
PlatformArgs == {<<"">>, <<"MacOS", "macos", "linux">>, <<"bogus">>}
DescriptionArgs == {"", "d2"}
FlagSets ==
    [side : {Unset} \cup {Given(v) : v \in SideArgs},
     platforms : {[changed |-> FALSE, val |-> <<>>]} \cup {Given(v) : v \in PlatformArgs},
     pin : {[changed |-> FALSE, val |-> FALSE]} \cup {Given(v) : v \in BOOLEAN},
     optional : {[changed |-> FALSE, val |-> FALSE]} \cup {Given(v) : v \in BOOLEAN},
     description : {Unset} \cup {Given(v) : v \in DescriptionArgs},
     default : {[changed |-> FALSE, val |-> FALSE]} \cup {Given(v) : v \in BOOLEAN}]

\* modify.go:64-91  --side
applySide(m, f) == IF f.side.changed
                   THEN [m EXCEPT !.side = NormalizeSide(TrimSpace(f.side.val))]
                   ELSE m
\* modify.go:94-115  --disabled-client-platforms
applyPlatforms(m, f) == IF f.platforms.changed
                        THEN [m EXCEPT !.platforms = NormalizeClientPlatforms(f.platforms.val)]
                        ELSE m
\* modify.go:118-128  --pin
applyPin_unconditional(m, f) == [m EXCEPT !.pin = f.pin.val]
applyPin(m, f) == IF f.pin.changed THEN [m EXCEPT !.pin = f.pin.val] ELSE m
\* modify.go:132  is one of the three optional flags given
optionFlagGiven(f) == f.optional.changed \/ f.description.changed \/ f.default.changed
\* modify.go:163  are all option values the default ones
optionIsDefault(o) == o.present /\ ~o.optional /\ o.description = "" /\ ~o.default
\* modify.go:130-171  --optional, --optional-description, --optional-default
applyOption(m, f) ==
    IF ~optionFlagGiven(f) THEN m
    ELSE LET o0 == IF m.option.present THEN m.option
                   ELSE [present |-> TRUE, optional |-> FALSE, description |-> "", default |-> FALSE]
             o1 == IF f.optional.changed THEN [o0 EXCEPT !.optional = f.optional.val] ELSE o0
             o2 == IF f.description.changed THEN [o1 EXCEPT !.description = f.description.val] ELSE o1
             o3 == IF f.default.changed THEN [o2 EXCEPT !.default = f.default.val] ELSE o2
         IN  [m EXCEPT !.option = IF optionIsDefault(o3) THEN NoOption ELSE o3]

\* modify.go:60-171  the record after all flags are applied
applyFlags(m, f) == applyOption(applyPin(applyPlatforms(applySide(m, f), f), f), f)
\* modify.go:61-170  was any change made
anyChange(f) == f.side.changed \/ f.platforms.changed \/ f.pin.changed \/ optionFlagGiven(f)
\* modify.go:68-71, 98-101  do the flag values pass validation
flagsValid(f) ==
    /\ f.side.changed => ValidateSide(TrimSpace(f.side.val))
    /\ f.platforms.changed => ValidateClientPlatforms(f.platforms.val)

\* Index.FindMod: does the Index list a metadata record under the name
FindMod(idx, name) ==
    MetaPath(name) \in Paths /\ idx[MetaPath(name)].present /\ idx[MetaPath(name)].metafile

\* modify.go:30-177  load the pack, find and load the record, apply the flags
ModifyApply ==
    /\ cmd = "modify" /\ pc = "m_start"
    /\ \E target \in {0, 1}, f \in FlagSets :
         /\ flags' = f
         /\ IF ~FindMod(index, target)
            THEN /\ Exit(1, "notfound")
                 /\ UNCHANGED << modPath, modData >>
            ELSE /\ modPath' = MetaPath(target)
                 /\ IF files[MetaPath(target)].kind # "record"
                    THEN Exit(1, "loadfail") /\ UNCHANGED modData
                    ELSE IF ~flagsValid(f)
                    THEN Exit(1, "invalid") /\ UNCHANGED modData
                    ELSE IF ~anyChange(f)
                    THEN Exit(0, "nochange") /\ modData' = files[MetaPath(target)]
                    ELSE /\ modData' = applyFlags(files[MetaPath(target)], f)
                         /\ pc' = "m_write"
                         /\ UNCHANGED << exitCode, exitWay >>
    /\ UNCHANGED << diffVars, validateVars, sideVars, batchVars, cmd, files, index, persisted, packHash, wr, faults, ioFailed >>

\* modify.go:179-184  modData.Write(): the file cannot be created, the
\* encoding fails midway, or the file is written and closing it fails
ModifyWrite_ignoreError ==
    /\ cmd = "modify" /\ pc = "m_write"
    /\ \E w \in {"ok", "create_err", "encode_err", "close_err"} :
         /\ w # "ok" => faults < MaxFaults
         /\ faults' = IF w = "ok" THEN faults ELSE faults + 1
         /\ files' = CASE w \in {"ok", "close_err"} -> [files EXCEPT ![modPath] = modData]
                       [] w = "encode_err" -> [files EXCEPT ![modPath] = TornFile]
                       [] OTHER -> files
         /\ IF w = "ok"
            THEN /\ wr' = ModWrite(modData)
                 /\ pc' = "m_refresh"
                 /\ UNCHANGED << exitCode, exitWay >>
            ELSE /\ wr' = ModWrite(modData)
                 /\ pc' = "m_refresh"
                 /\ UNCHANGED << exitCode, exitWay >>
    /\ UNCHANGED << diffVars, validateVars, sideVars, batchVars, modVars, cmd, index, persisted, packHash, ioFailed >>
ModifyWrite ==
    /\ cmd = "modify" /\ pc = "m_write"
    /\ \E w \in {"ok", "create_err", "encode_err", "close_err"} :
         /\ w # "ok" => faults < MaxFaults
         /\ faults' = IF w = "ok" THEN faults ELSE faults + 1
         /\ files' = CASE w \in {"ok", "close_err"} -> [files EXCEPT ![modPath] = modData]
                       [] w = "encode_err" -> [files EXCEPT ![modPath] = TornFile]
                       [] OTHER -> files
         /\ IF w = "ok"
            THEN /\ wr' = ModWrite(modData)
                 /\ pc' = "m_refresh"
                 /\ UNCHANGED << exitCode, exitWay >>
            ELSE /\ Exit(1, "writefail")
                 /\ UNCHANGED wr
    /\ UNCHANGED << diffVars, validateVars, sideVars, batchVars, modVars, cmd, index, persisted, packHash, ioFailed >>

\* modify.go:186-191  index.RefreshFileWithHash
ModifyRefresh ==
    /\ cmd = "modify" /\ pc = "m_refresh"
    /\ index' = RefreshFileWithHash(index, modPath, wr.format, wr.hash, TRUE)
    /\ pc' = "m_index"
    /\ UNCHANGED << diffVars, validateVars, sideVars, batchVars, modVars, cmd, exitCode, exitWay, files, persisted,
                    packHash, wr, faults, ioFailed >>

\* modify.go:193-213  index.Write, pack.UpdateIndexHash, pack.Write
ModifyIndexWrite ==
    /\ cmd = "modify" /\ pc = "m_index"
    /\ \E w \in WriteResults :
         /\ w # "ok" => faults < MaxFaults
         /\ faults' = IF w = "ok" THEN faults ELSE faults + 1
         /\ ioFailed' = (ioFailed \/ w # "ok")
         /\ persisted' = IF w = "indexfail" THEN persisted ELSE index
         /\ packHash' = IF w = "ok" THEN IndexHash(index) ELSE packHash
         /\ IF w = "ok" THEN Exit(0, "modified") ELSE Exit(1, "fatal")
    /\ UNCHANGED << diffVars, validateVars, sideVars, batchVars, modVars, cmd, files, index, wr >>

ModifyStep == ModifyApply \/ ModifyWrite \/ ModifyRefresh \/ ModifyIndexWrite

(***************************************************************************)
(* import.go:321-382  determineSideFromEnv                                 *)
(***************************************************************************)
\* values of FileEnv.Client and FileEnv.Server: the four the format names,
\* the empty string of an absent field, and strings the code does not know
EnvSignals == {"required", "optional", "unsupported", "unknown", "",
               "sometimes", "REQUIRED", "Unsupported"}
Envs == {NilEnv} \cup [nil : {FALSE}, Client : EnvSignals, Server : EnvSignals]

\* main.go:72-74
ServerSide == "server"
ClientSide == "client"
UniversalSide == "both"

\* import.go:335-336  clientUnknown, serverUnknown
signalUnknown_literalOnly(v) == v = "unknown"
signalUnknown(v) ==
    v = "unknown" \/ (v # "required" /\ v # "optional" /\ v # "unsupported" /\ v # "")

\* import.go:344-347  skip if unsupported on one side and unknown/empty on the other
skipOneSided_never(e) == FALSE
skipOneSided(e) ==
    \/ (e.Client = "unsupported" /\ (e.Server = "" \/ signalUnknown(e.Server)))
    \/ (e.Server = "unsupported" /\ (e.Client = "" \/ signalUnknown(e.Client)))

\* import.go:349-360  warningMsg: empty, or the prefix followed by the warnings
sideWarning(e) ==
    LET unknowns == (IF signalUnknown(e.Client)
                     THEN <<"client side compatibility unknown">> ELSE <<>>)
                    \o (IF signalUnknown(e.Server)
                        THEN <<"server side compatibility unknown">> ELSE <<>>)
    IN  IF Len(unknowns) > 0 THEN <<"Unknown side compatibility: ">> \o unknowns ELSE <<>>

\* import.go:362-381  the side of a result that is not a skip
sideOf_emptyDefault(e) ==
    LET cS == e.Client = "required" \/ e.Client = "optional"
        sS == e.Server = "required" \/ e.Server = "optional"
    IN  IF cS /\ sS THEN UniversalSide
        ELSE IF cS THEN ClientSide
        ELSE IF sS THEN ServerSide
        ELSE ""
sideOf_serverFirst(e) ==
    LET cS == e.Client = "required" \/ e.Client = "optional"
        sS == e.Server = "required" \/ e.Server = "optional"
    IN  IF sS THEN ServerSide ELSE IF cS THEN ClientSide ELSE UniversalSide
sideOf(e) ==
    LET clientSupported == e.Client = "required" \/ e.Client = "optional"
        serverSupported == e.Server = "required" \/ e.Server = "optional"
        clientUnsupported == e.Client = "unsupported"
        serverUnsupported == e.Server = "unsupported"
        clientUnknown == signalUnknown(e.Client)
        serverUnknown == signalUnknown(e.Server)
    IN  IF clientSupported /\ serverSupported THEN UniversalSide
        ELSE IF clientSupported \/ (clientUnknown /\ ~serverSupported /\ ~serverUnsupported)
             THEN ClientSide
        ELSE IF serverSupported \/ (serverUnknown /\ ~clientSupported /\ ~clientUnsupported)
             THEN ServerSide
        ELSE IF clientUnknown \/ serverUnknown THEN UniversalSide
        ELSE IF clientUnsupported THEN ServerSide
        ELSE IF serverUnsupported THEN ClientSide
        ELSE UniversalSide

\* import.go:321-382  determineSideFromEnv: (side, shouldSkip, warning)
determineSideFromEnv(e) ==
    IF e.nil THEN [side |-> UniversalSide, shouldSkip |-> FALSE, warning |-> <<>>]
    ELSE IF e.Client = "unsupported" /\ e.Server = "unsupported"
         THEN [side |-> "", shouldSkip |-> TRUE, warning |-> <<>>]
    ELSE IF skipOneSided(e)
         THEN [side |-> "", shouldSkip |-> TRUE, warning |-> <<>>]
    ELSE [side |-> sideOf(e), shouldSkip |-> FALSE, warning |-> sideWarning(e)]

\* the function applied to one environment
InitSide ==
    /\ cmd = "side"
    /\ pc = "s_start"
    /\ installed0 = {}
    /\ manifest = {}
    /\ files = InitFiles(installed0)
    /\ index = InitIndex(installed0)
    /\ InitCommon
    /\ env \in Envs
    /\ sideResult = NoSideResult
    /\ NoDiffRun
    /\ NoValidateRun

DetermineSide ==
    /\ cmd = "side" /\ pc = "s_start"
    /\ sideResult' = [side |-> determineSideFromEnv(env).side,
                      shouldSkip |-> determineSideFromEnv(env).shouldSkip,
                      warning |-> determineSideFromEnv(env).warning,
                      returned |-> TRUE]
    /\ pc' = "s_done"
    /\ UNCHANGED << validateVars, diffVars, env, modVars, batchVars, cmd, exitCode, exitWay, files, index, persisted,
                    packHash, wr, faults, ioFailed >>

SideSpec == InitSide /\ [][DetermineSide]_vars

(***************************************************************************)
(* part_000: the diff command                                              *)
(***************************************************************************)

\* a pack whose records come from several sources
SourcePack == {1, 3, 4, 5, 7, 8, 9, 11}
\* the packs diff is run in: no record; records of projects 1 and 3; records
\* of projects 1, 4, 5, 7, 9, 10; the pack of several sources
DiffPacks == {{}, {1, 3}, {1, 4, 5, 7, 9, 10}, SourcePack}
\* the record of project p in such a pack: projects 1, 5 and 7 carry the
\* version the bundle lists under the hash p, project 9 has no update data,
\* the file of project 10 does not load, the others carry an older version
DiffRecord(p) ==
    IF p = 10 THEN TornFile
    ELSE IF p = 9 THEN [OldRecord(p) EXCEPT !.project = 0, !.version = 0, !.update = {}]
    ELSE [OldRecord(p) EXCEPT !.version = IF p \in {1, 5, 7} THEN VersionOf(p) ELSE OldVersion(p)]
\* the record at the path of p in the pack of several sources: [update]
\* tables by updater name, the modrinth project ID (0 when the record has no
\* modrinth table or an empty mod-id) and the download URL (0 when empty)
SourceRecord(p) ==
    LET shape ==
          CASE p = 1  -> [update |-> {"modrinth"},               project |-> 0, url |-> UrlOf(p)]
            [] p = 3  -> [update |-> {"curseforge"},             project |-> 0, url |-> 0]
            [] p = 4  -> [update |-> {"curseforge", "github"},   project |-> 0, url |-> 0]
            [] p = 5  -> [update |-> {"github"},                 project |-> 0, url |-> UrlOf(p)]
            [] p = 7  -> [update |-> {"github"},                 project |-> 0, url |-> 0]
            [] p = 8  -> [update |-> {},                         project |-> 0, url |-> 0]
            [] p = 9  -> [update |-> {},                         project |-> 0, url |-> UrlOf(p)]
            [] OTHER  -> [update |-> {"modrinth", "curseforge"}, project |-> p, url |-> UrlOf(p)]
    IN  [OldRecord(p) EXCEPT !.update = shape.update, !.project = shape.project,
                             !.version = IF shape.project = 0 THEN 0 ELSE OldVersion(p),
                             !.url = shape.url]
DiffFiles(inst) == [pa \in Paths |-> IF \E p \in inst : pa = MetaPath(p)
                                     THEN LET p == CHOOSE q \in inst : pa = MetaPath(q) IN
                                          IF inst = SourcePack THEN SourceRecord(p)
                                          ELSE DiffRecord(p)
                                     ELSE NoFile]
DiffIndex(inst) == [pa \in Paths |-> IF \E p \in inst : pa = MetaPath(p)
                                     THEN [present |-> TRUE, hashFormat |-> "sha256",
                                           hash |-> Digest(DiffFiles(inst)[pa]),
                                           metafile |-> TRUE]
                                     ELSE NoEntry]
\* the bundles diff is given: no file with a sha512 hash; hashes 1, 2 (both
\* of project 1), 3, 4; hashes 3 to 8 and the last hash
DiffManifests == {{}, {1, 2, 3, 4}, {3, 4, 5, 6, 7, 8, NumRefs}}

\* part_000:189-220  the ModInfo of a loaded record
LocalModInfo(m) ==
    [present |-> TRUE, ProjectID |-> m.project, VersionID |-> <<m.version>>,
     ProjectName |-> m.name, FileName |-> m.filename, Side |-> m.side]

\* part_000:204-247  the count a loaded record goes to: "none" when it goes
\* to no count
sourceOf(m) ==
    IF "modrinth" \in m.update /\ m.project # 0 THEN "modrinth"
    ELSE IF "curseforge" \in m.update THEN "curseforge"
    ELSE IF m.url # 0
         THEN IF \E key \in m.update : key # "modrinth" /\ key # "curseforge"
              THEN "other" ELSE "url"
         ELSE "none"

\* part_000:188-202  the metadata files of the index that load
loadedMods(idx, disk) ==
    {pa \in Paths : idx[pa].present /\ idx[pa].metafile /\ disk[pa].kind = "record"}

\* part_000:188-256  the loop over index.Files: skipped when the entry is no
\* metadata file or the record does not load, else counted by source
countedBy(idx, disk) ==
    [pa \in Paths |-> IF pa \in loadedMods(idx, disk) THEN sourceOf(disk[pa]) ELSE "skipped"]

\* part_000:217-243  the counts returned
ModSources(c) ==
    [Modrinth   |-> Cardinality({pa \in Paths : c[pa] = "modrinth"}),
     CurseForge |-> Cardinality({pa \in Paths : c[pa] = "curseforge"}),
     URL        |-> Cardinality({pa \in Paths : c[pa] = "url"}),
     Other      |-> Cardinality({pa \in Paths : c[pa] = "other"})]

\* part_000:161-264  getCurrentModrinthMods: the records the index lists as
\* metadata files, that load, and that carry a modrinth project ID
getCurrentModrinthMods(idx, disk) ==
    [p \in AllProjects |->
        IF \E pa \in loadedMods(idx, disk) :
              sourceOf(disk[pa]) = "modrinth" /\ disk[pa].project = p
        THEN LocalModInfo(disk[CHOOSE pa \in loadedMods(idx, disk) :
                                   sourceOf(disk[pa]) = "modrinth" /\ disk[pa].project = p])
        ELSE NoMod]

\* part_000:291-301  projectToVersionMap[p]: the hashes of project p in the
\* order the range over versionMap visited them
RECURSIVE VersionsOfProject(_, _)
VersionsOfProject(p, order) ==
    IF order = <<>> THEN <<>>
    ELSE (IF ProjOf(Head(order)) = p THEN <<Head(order)>> ELSE <<>>)
         \o VersionsOfProject(p, Tail(order))

\* part_000:346-357  mods[projectID] is assigned once per hash of the
\* project, so the entry that stays is the one of the last hash visited
MrpackModInfo(p, h, hashes) ==
    [present |-> TRUE, ProjectID |-> p, VersionID |-> <<VersionOf(h)>>,
     ProjectName |-> NameOf(p),
     \* ModrinthIndexFileRef.Path of the manifest file with sha512 hash h
     FileName |-> IF h \in hashes THEN 1000 + h ELSE 0,
     Side |-> importSide(p)]

\* part_000:267-365  getMrpackModsWithInfo, for the lookup result vm ranged
\* over in the given order
getMrpackModsWithInfo(hashes, vm, order) ==
    [p \in AllProjects |->
        LET infos == VersionsOfProject(p, order) IN
        IF infos = <<>> THEN NoMod
        ELSE MrpackModInfo(p, infos[Len(infos)], hashes)]

\* part_000:369-373  missing: in the bundle map and not in the local map
missingMods(current, mrpack) ==
    {mrpack[p] : p \in {q \in AllProjects : mrpack[q].present /\ ~current[q].present}}
\* part_000:376-380  extra: in the local map and not in the bundle map
extraMods(current, mrpack) ==
    {current[p] : p \in {q \in AllProjects : current[q].present /\ ~mrpack[q].present}}
\* part_000:383-396  different: in both maps with differing version IDs
differentMods_anyVersion(current, mrpack) ==
    {[present |-> TRUE, ProjectID |-> p, ProjectName |-> current[p].ProjectName,
      VersionID |-> current[p].VersionID \o mrpack[p].VersionID,
      FileName |-> 0, Side |-> current[p].Side] :
        p \in {q \in AllProjects : current[q].present /\ mrpack[q].present}}
differentMods(current, mrpack) ==
    {[present |-> TRUE, ProjectID |-> p, ProjectName |-> current[p].ProjectName,
      VersionID |-> current[p].VersionID \o mrpack[p].VersionID,
      FileName |-> 0, Side |-> current[p].Side] :
        p \in {q \in AllProjects : /\ current[q].present /\ mrpack[q].present
                                  /\ current[q].VersionID # mrpack[q].VersionID}}

\* part_000:400-407  strings.Compare: -1, 0 or 1 by the first differing byte,
\* a proper prefix being the smaller
RECURSIVE Compare(_, _)
Compare(a, b) ==
    IF a = <<>> /\ b = <<>> THEN 0
    ELSE IF a = <<>> THEN -1
    ELSE IF b = <<>> THEN 1
    ELSE IF Head(a) < Head(b) THEN -1
    ELSE IF Head(a) > Head(b) THEN 1
    ELSE Compare(Tail(a), Tail(b))

\* part_000:400-402  the comparison handed to slices.SortFunc
compareByName_byID(a, b) ==
    IF a.ProjectID < b.ProjectID THEN -1 ELSE IF a.ProjectID > b.ProjectID THEN 1 ELSE 0
compareByName(a, b) == Compare(a.ProjectName, b.ProjectName)

\* part_000:399-408  slices.SortFunc by ProjectName of a list appended in map
\* iteration order: every arrangement of the entries with ascending names
RECURSIVE SortedByName(_)
SortedByName(S) ==
    IF S = {} THEN {<<>>}
    ELSE UNION {{<<m>> \o r : r \in SortedByName(S \ {m})} :
                   m \in {x \in S : \A y \in S : compareByName(x, y) <= 0}}

InitDiff ==
    /\ cmd = "diff"
    /\ pc = "d_start"
    /\ installed0 \in DiffPacks
    /\ manifest \in DiffManifests
    /\ files = DiffFiles(installed0)
    /\ index = DiffIndex(installed0)
    /\ InitCommon
    /\ env = NilEnv /\ sideResult = NoSideResult
    /\ NoDiffRun
    /\ NoValidateRun

\* part_000:31-68  LoadPack, LoadIndex and parseMrpackFile, each ending the
\* command with exit code 1 on failure, then getCurrentModrinthMods
DiffAnalyze_refreshing ==
    /\ cmd = "diff" /\ pc = "d_start"
    /\ \/ /\ faults < MaxFaults
          /\ faults' = faults + 1
          /\ Exit(1, "loadfail")
          /\ UNCHANGED << currentMods, sources, counted, index >>
       \/ /\ currentMods' = getCurrentModrinthMods(index, files)
          /\ counted' = countedBy(index, files)
          /\ sources' = ModSources(countedBy(index, files))
          /\ index' = [pa \in Paths |-> IF files[pa].kind = "record"
                                        THEN [index[pa] EXCEPT !.hash = Digest(files[pa])]
                                        ELSE NoEntry]
          /\ pc' = "d_analyzed"
          /\ UNCHANGED << faults, exitCode, exitWay >>
    /\ UNCHANGED << mrpackMods, diffOut, prevOut, run, validateVars, sideVars, modVars, batchVars, cmd,
                    files, persisted, packHash, wr, ioFailed >>
DiffAnalyze ==
    /\ cmd = "diff" /\ pc = "d_start"
    /\ \/ /\ faults < MaxFaults
          /\ faults' = faults + 1
          /\ Exit(1, "loadfail")
          /\ UNCHANGED << currentMods, sources, counted >>
       \/ /\ currentMods' = getCurrentModrinthMods(index, files)
          /\ counted' = countedBy(index, files)
          /\ sources' = ModSources(countedBy(index, files))
          /\ pc' = "d_analyzed"
          /\ UNCHANGED << faults, exitCode, exitWay >>
    /\ UNCHANGED << mrpackMods, diffOut, prevOut, run, validateVars, sideVars, modVars, batchVars, cmd,
                    files, index, persisted, packHash, wr, ioFailed >>

\* part_000:275-289  collect the hashes and look them up; the second run is
\* given the answer of the first, and ranges over the map in an order of its own
DiffLookup ==
    /\ cmd = "diff" /\ pc = "d_analyzed"
    /\ \/ /\ manifest = {}
          /\ pc' = "d_fetched"
          /\ UNCHANGED << versionMap, todo, faults, exitCode, exitWay >>
       \/ /\ manifest # {}
          /\ faults < MaxFaults
          /\ faults' = faults + 1
          /\ Exit(1, "lookupfail")
          /\ UNCHANGED << versionMap, todo >>
       \/ /\ manifest # {}
          /\ \E answer \in LookupAnswers(manifest) :
               /\ run = 2 => answer = versionMap
               /\ versionMap' = answer
               /\ \E ord \in RangeOrders(answer) : todo' = ord
          /\ pc' = "d_lookedup"
          /\ UNCHANGED << faults, exitCode, exitWay >>
    /\ UNCHANGED << diffVars, validateVars, sideVars, modVars, cmd, installed0, manifest, files, index,
                    persisted, packHash, cur, attempt, wr, installedProjects,
                    successCount, skippedCount, processedCount, sig, doneChan,
                    ioFailed, outcome, installedSeq, lastCall, summary >>

\* part_000:291-364  group by project, Projects.GetMultiple, build the map
DiffFetch ==
    /\ cmd = "diff" /\ pc = "d_lookedup"
    /\ \/ /\ faults < MaxFaults
          /\ faults' = faults + 1
          /\ Exit(1, "fetchfail")
          /\ UNCHANGED << mrpackMods, todo >>
       \/ /\ mrpackMods' = getMrpackModsWithInfo(manifest, versionMap, todo)
          /\ todo' = <<>>
          /\ pc' = "d_fetched"
          /\ UNCHANGED << faults, exitCode, exitWay >>
    /\ UNCHANGED << sources, counted, currentMods, diffOut, prevOut, run, validateVars, sideVars, modVars, cmd, installed0,
                    manifest, files, index, persisted, packHash, versionMap, cur,
                    attempt, wr, installedProjects, successCount, skippedCount,
                    processedCount, sig, doneChan, ioFailed, outcome, installedSeq,
                    lastCall, summary >>

\* part_000:367-411  compareMods
DiffCompare ==
    /\ cmd = "diff" /\ pc = "d_fetched"
    /\ \E mi \in SortedByName(missingMods(currentMods, mrpackMods)),
          ex \in SortedByName(extraMods(currentMods, mrpackMods)),
          di \in SortedByName(differentMods(currentMods, mrpackMods)) :
         diffOut' = [missing |-> mi, extra |-> ex, different |-> di, compared |-> TRUE]
    /\ pc' = "d_compared"
    /\ UNCHANGED << sources, counted, currentMods, mrpackMods, prevOut, run, validateVars, sideVars, modVars, batchVars, cmd,
                    exitCode, exitWay, files, index, persisted, packHash, wr, faults,
                    ioFailed >>

\* part_000:85-123  display and summary; the command ends, and is run once
\* more against the same pack and bundle
DiffFinish ==
    /\ cmd = "diff" /\ pc = "d_compared"
    /\ IF run = 1
       THEN /\ prevOut' = diffOut
            /\ run' = 2
            /\ currentMods' = NoMods /\ mrpackMods' = NoMods /\ diffOut' = NoDiff
            /\ sources' = NoSources /\ counted' = NoCounted
            /\ pc' = "d_start"
            /\ UNCHANGED << exitCode, exitWay >>
       ELSE /\ Exit(0, "diffdone")
            /\ UNCHANGED diffVars
    /\ UNCHANGED << validateVars, sideVars, modVars, batchVars, cmd, files, index, persisted, packHash, wr,
                    faults, ioFailed >>

DiffStep == DiffAnalyze \/ DiffLookup \/ DiffFetch \/ DiffCompare \/ DiffFinish

DiffSpec == InitDiff /\ [][DiffStep]_vars

(***************************************************************************)
(* cmd/validate.go:24-267  validateCmd.Run                                 *)
(***************************************************************************)
\* pack.Index.Hash when pack.toml specifies none
NoIndexHash == -1

\* the pack.toml validate loads: complete; without a name; without versions,
\* so that GetMCVersion fails; with an empty minecraft version
PackMetas ==
    {[Name |-> "pack", mcVersion |-> "1.20", versions |-> 1],
     [Name |-> "",     mcVersion |-> "1.20", versions |-> 1],
     [Name |-> "pack", mcVersion |-> "err",  versions |-> 0],
     [Name |-> "pack", mcVersion |-> "",     versions |-> 1]}

\* what may be at the path of project 1: a complete record, records with an
\* empty name, filename or URL, without hash information, with a side that
\* is not accepted, a file that does not load, and nothing
ValidateRecords ==
    {OldRecord(1),
     [OldRecord(1) EXCEPT !.name = <<>>],
     [OldRecord(1) EXCEPT !.filename = 0],
     [OldRecord(1) EXCEPT !.url = 0],
     [OldRecord(1) EXCEPT !.dlFormat = "", !.dlHash = <<>>],
     [OldRecord(1) EXCEPT !.side = "bogus"],
     TornFile,
     NoFile}
\* the index entry of a path: none, a metadata entry with the hash of the
\* file, a metadata entry with another hash, an entry of a plain file
EntryKinds == {"absent", "matching", "stale", "plain"}
ValidateEntry(m, kind) ==
    CASE kind = "absent" -> NoEntry
      [] kind = "matching" -> [present |-> TRUE, hashFormat |-> "sha256",
                               hash |-> Digest(m), metafile |-> TRUE]
      [] kind = "stale" -> [present |-> TRUE, hashFormat |-> "sha256",
                            \* a hash that is not the hash of the file
                            hash |-> <<9>>, metafile |-> TRUE]
      [] OTHER -> [present |-> TRUE, hashFormat |-> "sha256",
                   hash |-> Digest(m), metafile |-> FALSE]

InitValidate ==
    /\ cmd = "validate"
    /\ pc = "v_start"
    /\ installed0 = {}
    /\ manifest = {}
    /\ \E r1 \in ValidateRecords, r3 \in {OldRecord(3), TornFile, NoFile} :
         files = [pa \in Paths |-> IF pa = MetaPath(1) THEN r1
                                   ELSE IF pa = MetaPath(3) THEN r3 ELSE NoFile]
    /\ \E k1 \in EntryKinds \ {"plain"}, k3 \in EntryKinds \ {"stale"} :
         index = [pa \in Paths |-> IF pa = MetaPath(1) THEN ValidateEntry(files[pa], k1)
                                   ELSE IF pa = MetaPath(3) THEN ValidateEntry(files[pa], k3)
                                   ELSE NoEntry]
    /\ persisted = index
    /\ packHash \in {NoIndexHash, IndexHash(index), (IndexHash(index) + 1) % 100003}
    /\ pack \in PackMetas
    /\ issues = 0
    /\ warnings = 0
    /\ InitProcess
    /\ env = NilEnv /\ sideResult = NoSideResult
    /\ NoDiffRun

\* what a validate step leaves alone besides its own counters
ValidateFrame ==
    UNCHANGED << pack, diffVars, sideVars, modVars, batchVars, cmd, files, index,
                 persisted, packHash, wr, ioFailed >>

\* validate.go:25-43  core.LoadPack and pack.LoadIndex
ValidateLoad ==
    /\ cmd = "validate" /\ pc = "v_start"
    /\ \/ /\ faults < MaxFaults
          /\ faults' = faults + 1
          /\ Exit(1, "loadfail")
       \/ /\ pc' = "v_pack"
          /\ UNCHANGED << faults, exitCode, exitWay >>
    /\ UNCHANGED << issues, warnings >>
    /\ ValidateFrame

\* validate.go:49-69  1. pack.toml format
ValidatePackFormat ==
    /\ cmd = "validate" /\ pc = "v_pack"
    /\ issues' = issues + (IF pack.Name = "" THEN 1 ELSE 0)
    /\ warnings' = warnings + (IF pack.mcVersion \in {"err", ""} THEN 1 ELSE 0)
                            + (IF pack.versions = 0 THEN 1 ELSE 0)
    /\ pc' = "v_index"
    /\ UNCHANGED << faults, exitCode, exitWay >>
    /\ ValidateFrame

\* validate.go:71-76  2. index.toml format
ValidateIndexFormat ==
    /\ cmd = "validate" /\ pc = "v_index"
    /\ warnings' = warnings + (IF \A pa \in Paths : ~index[pa].present THEN 1 ELSE 0)
    /\ pc' = "v_missing"
    /\ UNCHANGED << issues, faults, exitCode, exitWay >>
    /\ ValidateFrame

\* validate.go:83  os.Stat reports that the file of an entry does not exist
missingFile(disk, pa) == disk[pa].kind = "absent"

\* validate.go:78-91  3. files the index references and that are missing
ValidateMissing ==
    /\ cmd = "validate" /\ pc = "v_missing"
    /\ issues' = issues + Cardinality({pa \in Paths : index[pa].present /\ missingFile(files, pa)})
    /\ pc' = "v_mods"
    /\ UNCHANGED << warnings, faults, exitCode, exitWay >>
    /\ ValidateFrame

\* validate.go:103-149  is the metadata file at a path rejected: it does not
\* load, or its name, filename, URL or hash information is empty, or its side
\* is not accepted
invalidMod(m) ==
    \/ m.kind # "record"
    \/ m.name = <<>>
    \/ m.filename = 0
    \/ m.url = 0
    \/ m.dlFormat = "" \/ m.dlHash = <<>>
    \/ m.side # "" /\ ~ValidateSide(m.side)

\* validate.go:93-159  4. metadata file formats
ValidateMods ==
    /\ cmd = "validate" /\ pc = "v_mods"
    /\ issues' = issues + Cardinality({pa \in Paths : /\ index[pa].present /\ index[pa].metafile
                                                     /\ invalidMod(files[pa])})
    /\ pc' = "v_untracked"
    /\ UNCHANGED << warnings, faults, exitCode, exitWay >>
    /\ ValidateFrame

\* validate.go:161-217  5. metadata files on disk that the index does not
\* list, and directories that cannot be scanned: warnings only
ValidateUntracked ==
    /\ cmd = "validate" /\ pc = "v_untracked"
    /\ \E scanErr \in {0, 1} :
         /\ scanErr = 1 => faults < MaxFaults
         /\ faults' = faults + scanErr
         /\ warnings' = warnings + scanErr
                        + Cardinality({pa \in Paths : files[pa].kind # "absent"
                                                      /\ ~index[pa].present})
    /\ pc' = "v_hash"
    /\ UNCHANGED << issues, exitCode, exitWay >>
    /\ ValidateFrame

\* validate.go:270-304  calculateIndexHash: the hash of the index file on disk
calculateIndexHash(idxFile) == IndexHash(idxFile)

\* validate.go:219-240  6. index hash consistency
ValidateIndexHash ==
    /\ cmd = "validate" /\ pc = "v_hash"
    /\ \/ /\ packHash = NoIndexHash
          /\ warnings' = warnings + 1
          /\ UNCHANGED << issues, faults >>
       \/ /\ packHash # NoIndexHash
          /\ faults < MaxFaults
          /\ faults' = faults + 1
          /\ issues' = issues + 1
          /\ UNCHANGED warnings
       \/ /\ packHash # NoIndexHash
          /\ issues' = issues + (IF packHash # calculateIndexHash(persisted) THEN 1 ELSE 0)
          /\ UNCHANGED << warnings, faults >>
    /\ pc' = "v_summary"
    /\ UNCHANGED << exitCode, exitWay >>
    /\ ValidateFrame

\* validate.go:257-265  the exit code the summary ends the command with
validateExitCode_warnings(nIssues, nWarnings) == IF nIssues + nWarnings > 0 THEN 1 ELSE 0
validateExitCode(nIssues, nWarnings) == IF nIssues > 0 THEN 1 ELSE 0

\* validate.go:242-266  summary and exit
ValidateSummary ==
    /\ cmd = "validate" /\ pc = "v_summary"
    /\ Exit(validateExitCode(issues, warnings), "validated")
    /\ UNCHANGED << issues, warnings, faults >>
    /\ ValidateFrame

ValidateStep ==
    \/ ValidateLoad \/ ValidatePackFormat \/ ValidateIndexFormat \/ ValidateMissing
    \/ ValidateMods \/ ValidateUntracked \/ ValidateIndexHash \/ ValidateSummary

ValidateSpec == InitValidate /\ [][ValidateStep]_vars

MainStep == Lookup \/ LoopNext \/ FetchProject \/ HandleFetch \/ InstallFetch
            \/ CreateMeta \/ Refresh
            \/ Checkpoint \/ LoopEnd \/ Final \/ Recover
SigStep == SigReceive \/ SigSave \/ SigExit \/ SigReturn

Next == MainStep \/ SigStep \/ ModifyStep

Spec == Init /\ [][Next]_vars

\* an import in which no signal is delivered: the signal goroutine stays blocked
\* in its select (import.go:660) and the main goroutine of the process is
\* always scheduled; every remote call and every write returns
FairSpec == InitImport /\ [][MainStep]_vars /\ WF_vars(MainStep)

TypeOK ==
    /\ successCount \in 0..(NumRefs + 1)
    /\ exitCode \in {-1, 0, 1}

(***************************************************************************)
(* Properties                                                              *)
(***************************************************************************)
\* the step that completes a successful install: the Index refresh that
\* follows the record write (import.go:1049, 738)
InstallCompletes == cmd = "import" /\ pc = "refresh" /\ pc' \in {"loop", "checkpoint"}
\* the step that completes a successful modify (modify.go:213)
ModifyCompletes == cmd = "modify" /\ exitWay # "modified" /\ exitWay' = "modified"
\* the hashes whose install succeeded
Installed == {h \in AllHashes : outcome[h] = "installed"}
\* the number of successful installs whose entry the persisted Index lacks
Unpersisted == Cardinality({h \in Installed : ~persisted[MetaPath(ProjOf(h))].present})

C2_CheckpointBound ==
    (cmd = "import" /\ pc \in {"loop", "fetch", "fetched", "install", "fetched2", "final"})
    => /\ \A i \in 1..(CheckpointEvery * (successCount \div CheckpointEvery)) :
            persisted[MetaPath(ProjOf(installedSeq[i]))].present
       /\ Unpersisted <= CheckpointEvery - 1

\* C3 (as claimed, for the runs in which no write of the Index or of the pack
\* file failed): when the import process has ended normally, by a signal or
\* by a recovered panic, the persisted Index holds the entry of every
\* artifact counted as installed, and the pack file records its hash.
C3_PersistedOnEveryExit ==
    (cmd = "import" /\ pc = "exited" /\ exitWay \in {"normal", "signal", "panic"} /\ ~ioFailed)
    => /\ \A h \in Installed : persisted[MetaPath(ProjOf(h))] = index[MetaPath(ProjOf(h))]
       /\ successCount = Cardinality(Installed)
       /\ packHash = IndexHash(persisted)

\* the loop takes the next reference h from the range
Visits(h) == cmd = "import" /\ pc = "loop" /\ todo # <<>> /\ Head(todo) = h
             /\ processedCount' = processedCount + 1
\* the project of reference h was installed before the batch
PreInstalled(h) == ProjOf(h) \in installedProjects

\* C4 (as claimed): every resolved reference whose project is already
\* installed is skipped when the loop visits it: skip counter plus one, no
\* record written, no Index entry changed, no fetch started, not a failure.
C4_EveryInstalledProjectSkipped ==
    [][\A h \in AllHashes : (Visits(h) /\ PreInstalled(h)) =>
            /\ skippedCount' = skippedCount + 1
            /\ outcome'[h] = "skipped"
            /\ files' = files /\ index' = index /\ persisted' = persisted
            /\ pc' = "loop" /\ cur' = 0]_vars

\* C4 (amended): every resolved reference that has a manifest file and whose
\* project is already installed is skipped when the loop visits it: skip
\* counter plus one, no record written, no Index entry changed, no fetch
\* started, not a failure; and no project or version request is ever under
\* way for an already installed project.
C4_InstalledProjectWithManifestFileSkipped ==
    [][/\ \A h \in AllHashes : (Visits(h) /\ PreInstalled(h) /\ h \in manifest) =>
            /\ skippedCount' = skippedCount + 1
            /\ outcome'[h] = "skipped"
            /\ files' = files /\ index' = index /\ persisted' = persisted
            /\ pc' = "loop" /\ cur' = 0 /\ lastCall' = NoCall
       /\ (cmd = "import" /\ cur' # 0) => ProjOf(cur') \notin installedProjects']_vars

\* reference 3 of an installed project has been skipped and nothing was written
C4_Witness ==
    /\ cmd = "import" /\ pc = "loop" /\ 3 \in installedProjects
    /\ outcome[3] = "skipped" /\ skippedCount >= 1
    /\ files = InitFiles(installed0) /\ index = InitIndex(installed0)

\* the other resolved references with a manifest file that share the project of h
SameProject(h) == {g \in (versionMap \cap manifest) \ {h} : ProjOf(g) = ProjOf(h)}

\* C5 (as claimed): of two resolved references sharing an already installed
\* project, at the end of the loop exactly one is skipped and the other one
\* was processed.
C5_ExactlyOneOfPairSkipped ==
    (cmd = "import" /\ summary.printed) =>
        \A h \in versionMap \cap manifest : PreInstalled(h) =>
            \A g \in SameProject(h) :
                Cardinality({x \in {h, g} : outcome[x] = "skipped"}) = 1

\* C5 (amended): of two resolved references sharing an already installed
\* project, both are skipped and neither is processed, in either iteration
\* order: until visited a reference is untouched, and at the end of the loop
\* both are counted as skipped.
C5_BothOfPairSkipped ==
    (cmd = "import" /\ installedProjects # {}) =>
        \A h \in versionMap \cap manifest : PreInstalled(h) =>
            \A g \in SameProject(h) :
                /\ outcome[h] \in {"none", "skipped"}
                /\ outcome[g] \in {"none", "skipped"}
                /\ cur \notin {h, g}
                /\ summary.printed => (outcome[h] = "skipped" /\ outcome[g] = "skipped"
                                       /\ summary.skipped >= 2)

\* the loop ended after visiting 2 before 1, and both were skipped
C5_Witness ==
    /\ cmd = "import" /\ summary.printed /\ 1 \in installedProjects
    /\ outcome[1] = "skipped" /\ outcome[2] = "skipped"
    /\ files[MetaPath(1)] = OldRecord(1)

\* the file record the catalog declares installable for a version: the first
\* primary file, else the first file
DeclaredFile(v) == IF v % 4 \in {0, 3} THEN VersionFiles(v)[2] ELSE VersionFiles(v)[1]

\* C6 (as claimed): a successful install gives the Index entry of the record's
\* path the hash format and hash the remote file record declares.
C6_IndexEntryCarriesDeclaredHash ==
    [][InstallCompletes =>
            LET pa == MetaPath(ProjOf(cur))
                f == DeclaredFile(VersionOf(cur)) IN
            /\ index'[pa].hashFormat = f.algo
            /\ index'[pa].hash = f.hash]_vars

\* C6 (amended): a successful install stores the hash format and hash the
\* remote file record declares in the record's download section only; the
\* Index entry of the record's path is given what Mod.Write returned, sha256
\* and the hash of the record file, not the declared hash.
C6_DeclaredHashInDownloadSectionOnly ==
    [][InstallCompletes =>
            LET pa == MetaPath(ProjOf(cur))
                f == DeclaredFile(VersionOf(cur)) IN
            /\ files'[pa].dlFormat = f.algo
            /\ files'[pa].dlHash = f.hash
            /\ files'[pa].filename = f.filename
            /\ index'[pa].hashFormat = wr.format /\ index'[pa].hash = wr.hash
            /\ wr.format = "sha256"
            /\ index'[pa].hash # f.hash]_vars

\* the version of reference 8 declares two files; the primary one was installed
C6_Witness ==
    /\ cmd = "import" /\ outcome[8] = "installed"
    /\ files[MetaPath(8)].dlFormat = "sha512"
    /\ files[MetaPath(8)].dlHash = <<2, VersionOf(8)>>
    /\ index[MetaPath(8)].hashFormat = "sha256"

\* C7: when the loop has ended, the counts of the summary are the numbers of
\* resolved references installed, skipped and failed; failed is total minus
\* installed minus skipped and is not negative; every resolved reference is
\* in exactly one of the three, a reference without manifest file in failed.
C7_SummaryCountsPartitionBatch ==
    (cmd = "import" /\ summary.printed) =>
        LET total == Cardinality(versionMap)
            n(kind) == Cardinality({h \in versionMap : outcome[h] = kind})
        IN  /\ summary.installed = n("installed") /\ summary.installed = successCount
            /\ summary.skipped = n("skipped") /\ summary.skipped = skippedCount
            /\ summary.failed = n("failed")
            /\ summary.failed >= 0
            /\ summary.installed + summary.skipped + summary.failed = total
            /\ \A h \in versionMap : outcome[h] \in {"installed", "skipped", "failed"}
            /\ \A h \in versionMap \ manifest : outcome[h] = "failed"
            /\ processedCount = total

\* a summary with at least one reference of each kind
C7_Witness ==
    /\ cmd = "import" /\ summary.printed
    /\ summary.installed >= 1 /\ summary.skipped >= 1 /\ summary.failed >= 2
    /\ faults >= 1

\* a reference has just been counted as failed
FailureStep == cmd = "import" /\ \E h \in AllHashes : outcome[h] # "failed" /\ outcome'[h] = "failed"

\* C8: in a run without a signal, a failure of one artifact (project or
\* version request, no file, no hash, record write) leaves the process
\* running in the loop with the rest of the range still to visit; the loop
\* leaves for the summary and the final Index write only when every
\* resolved reference has been visited, the process ends before that only
\* by a panic, and once the loop has started the summary is printed and the
\* final Index write made, unless a panic ends the process.
C8_FailureNeverAbortsBatch ==
    /\ (cmd = "import" /\ pc = "loop")
          ~> \/ (summary.printed /\ pc = "exited" /\ exitWay \in {"normal", "fatal"}
                 /\ processedCount = Cardinality(versionMap))
             \/ exitWay = "panic"
    /\ [][/\ FailureStep => (pc' = "loop" /\ exitCode' = -1 /\ index' = index
                             /\ (todo' = todo \/ todo' = Tail(todo)))
          /\ (cmd = "import" /\ pc # "final" /\ pc' = "final") =>
                 (todo = <<>> /\ processedCount = Cardinality(versionMap) /\ summary'.printed)
          /\ (cmd = "import" /\ sig # "off" /\ pc # "exited" /\ pc' = "exited"
              /\ exitWay' \notin {"signal", "panic"}) =>
                 (pc = "final" /\ summary.printed /\ exitWay' \in {"normal", "fatal"})]_vars

\* the batch ran to its normal end although an install in it had failed
C8_Witness ==
    /\ cmd = "import" /\ exitWay = "normal" /\ faults >= 1
    /\ \E h \in versionMap \cap manifest : outcome[h] = "failed"
    /\ successCount >= 1

\* the error messages that carry a rate limit indicator
RateLimitMsgs == { <<"status", "429">>, <<"Too Many Requests">> }

\* C9: a project-detail request of getProjectWithRateLimit is repeated only
\* after a rate limit error and only while fewer than 3 attempts were made;
\* a successful attempt ends the fetch, any other error fails the artifact
\* after that attempt, the third rate limit error fails it too, and no fetch
\* makes more than 3 attempts. The project request inside the install is
\* made once and never repeated.
C9_RetryOnlyOnRateLimit ==
    [][/\ (cmd = "import" /\ pc = "fetched" /\ pc' # "fetched" /\ pc' # "exited") =>
            LET rl == lastCall.msg \in RateLimitMsgs IN
            /\ lastCall.n = attempt + 1 /\ lastCall.n <= 3
            /\ pc' = "fetch" => (lastCall.res = "err" /\ rl /\ lastCall.n < 3
                                 /\ attempt' = attempt + 1 /\ cur' = cur)
            /\ lastCall.res = "ok" => pc' = "install"
            /\ (lastCall.res = "err" /\ ~rl) => (pc' = "loop" /\ outcome'[cur] = "failed")
            /\ (lastCall.res = "err" /\ rl /\ lastCall.n = 3) =>
                   (pc' = "loop" /\ outcome'[cur] = "failed")
       /\ (cmd = "import" /\ pc = "fetched2" /\ pc' # "fetched2" /\ pc' # "exited") =>
            /\ lastCall.n = 1
            /\ pc' \in {"loop", "refresh"}
            /\ lastCall.res = "err" => (pc' = "loop" /\ outcome'[cur] = "failed")
       /\ attempt' <= 2]_vars

\* a third rate limit error is being returned as the failure
C9_Witness ==
    /\ cmd = "import" /\ pc = "fetched" /\ attempt = 2
    /\ lastCall.n = 3 /\ lastCall.res = "err" /\ lastCall.msg = <<"Too Many Requests">>

\* C10: when the batched lookup fails the process ends with exit code 1 and
\* the record files, the Index and the persisted Index are as before the
\* command; a manifest hash absent from the lookup result is never visited,
\* installed, skipped or counted as failed.
C10_LookupFailureAndMiss ==
    /\ exitWay = "lookupfail" =>
            /\ exitCode = 1
            /\ files = InitFiles(installed0)
            /\ index = InitIndex(installed0)
            /\ persisted = InitIndex(installed0)
            /\ packHash = IndexHash(InitIndex(installed0))
            /\ successCount = 0 /\ processedCount = 0
    /\ (cmd = "import" /\ sig # "off") =>
            \A h \in manifest \ versionMap :
                /\ outcome[h] = "none"
                /\ cur # h
                /\ \A i \in 1..Len(todo) : todo[i] # h
                /\ (ProjOf(h) \notin installed0 /\ \A g \in versionMap : ProjOf(g) # ProjOf(h))
                       => (~index[MetaPath(ProjOf(h))].present
                           /\ files[MetaPath(ProjOf(h))].kind = "absent")
                /\ summary.printed =>
                       summary.installed + summary.skipped + summary.failed
                           = Cardinality(manifest) - Cardinality(manifest \ versionMap)
                             + Cardinality(versionMap \ manifest)

\* the batch ended although the catalog did not know one manifest hash
C10_Witness ==
    /\ cmd = "import" /\ exitWay = "normal" /\ NumRefs \in manifest \ versionMap
    /\ outcome[NumRefs] = "none" /\ successCount >= 1

\* a step of the import in which a write of the Index fails: a write has
\* failed in this step and the persisted Index was not brought up to date
IndexWriteFails ==
    /\ cmd = "import" /\ ~ioFailed /\ ioFailed'
    /\ persisted' = persisted /\ persisted' # index'

\* C11: whenever a write of the Index fails during the import (periodic
\* checkpoint, signal or panic save, final write) the command ends in that
\* step with a non-zero exit code, instead of going on with the loop or
\* ending with exit code 0.
C11_IndexWriteFailureFatal ==
    [][IndexWriteFails => (pc' = "exited" /\ exitCode' = 1)]_vars

\* the file the claim names for a non-empty file list: the first file in
\* version order that is marked primary, else the first file
FirstPrimaryElseFirst(fs) ==
    LET prim == {i \in 1..Len(fs) : fs[i].primary} IN
    IF prim = {} THEN fs[1]
    ELSE fs[CHOOSE i \in prim : \A j \in prim : i <= j]

\* the step that follows the answers of Versions.Get and Projects.Get of an
\* install made with no explicit filename (import.go:734)
InstallSelects == cmd = "import" /\ pc = "fetched2" /\ pc' # "fetched2" /\ pc' # "exited"
                  /\ lastCall.res = "ok"

\* C12: an install with no explicit filename that writes a record writes it
\* for the first file marked primary if the version has one, otherwise for
\* the first file; when the version has no file the install fails, no
\* record file is written, no Index entry changes, and the artifact is not
\* counted as installed.
C12_PrimaryFileElseFirst ==
    [][InstallSelects =>
            LET fs == VersionFiles(VersionOf(cur))
                pa == MetaPath(ProjOf(cur)) IN
            /\ pc' = "refresh" =>
                   /\ lastCall.files = "declared"
                   /\ files'[pa].kind = "record"
                   /\ files'[pa].filename = FirstPrimaryElseFirst(fs).filename
                   /\ files'[pa].dlHash = FirstPrimaryElseFirst(fs).hash
                   /\ files'[pa].version = VersionOf(cur)
            /\ lastCall.files = "empty" =>
                   /\ outcome'[cur] = "failed" /\ pc' = "loop"
                   /\ files' = files /\ index' = index /\ persisted' = persisted
                   /\ successCount' = successCount]_vars

\* records were written for a version whose second file is the first primary
\* one, for a version with no primary file and for one with two primary files
C12_Witness ==
    /\ cmd = "import"
    /\ outcome[7] = "installed" /\ files[MetaPath(7)].filename = 3 * VersionOf(7) + 1
    /\ outcome[9] = "installed" /\ files[MetaPath(9)].filename = 3 * VersionOf(9)
    /\ outcome[10] = "installed" /\ files[MetaPath(10)].filename = 3 * VersionOf(10)
    /\ outcome[4] = "failed" /\ files[MetaPath(4)].kind = "absent"

\* the classes of a signal the claims name
Supported(v) == v \in {"required", "optional"}
Unsupported(v) == v = "unsupported"
UnknownOrAbsent(v) == ~Supported(v) /\ ~Unsupported(v)
UnknownValue(v) == v \notin {"required", "optional", "unsupported", ""}

\* C13: determineSideFromEnv returns for the nil environment and for every
\* pair of signals, and what it returns is either a skip with the empty side
\* or a non-skip with one of the sides client, server, both.
C13_SideResolverTotal ==
    /\ (cmd = "side" /\ pc = "s_start") => ENABLED DetermineSide
    /\ (cmd = "side" /\ pc = "s_done") => sideResult.returned
    /\ sideResult.returned =>
          \/ (sideResult.shouldSkip /\ sideResult.side = "")
          \/ (~sideResult.shouldSkip /\ sideResult.side \in {"client", "server", "both"})

\* a pair with an unrecognised and an absent signal got a side
C13_Witness ==
    /\ sideResult.returned /\ env.Client = "REQUIRED" /\ env.Server = ""
    /\ ~sideResult.shouldSkip /\ sideResult.side \in {"client", "server", "both"}

\* C14: when neither signal is required, optional or unsupported (both are
\* unknown or absent) determineSideFromEnv returns the side both and does
\* not skip.
C14_BothUnknownIsUniversal ==
    (sideResult.returned /\ (env.nil \/ (UnknownOrAbsent(env.Client) /\ UnknownOrAbsent(env.Server))))
        => (sideResult.side = "both" /\ ~sideResult.shouldSkip)

\* C15: determineSideFromEnv skips exactly when both signals are
\* unsupported, or one is unsupported and the other is unknown or absent;
\* client unknown with server unsupported is a skip, and no pair with a
\* required or optional signal is skipped.
C15_SkipExactlyWhenUnsupported ==
    sideResult.returned =>
        /\ sideResult.shouldSkip <=>
              /\ ~env.nil
              /\ \/ (Unsupported(env.Client) /\ Unsupported(env.Server))
                 \/ (Unsupported(env.Client) /\ UnknownOrAbsent(env.Server))
                 \/ (Unsupported(env.Server) /\ UnknownOrAbsent(env.Client))
        /\ (~env.nil /\ env.Client = "unknown" /\ env.Server = "unsupported")
              => sideResult.shouldSkip
        /\ (Supported(env.Client) \/ Supported(env.Server)) => ~sideResult.shouldSkip

\* client unknown and server unsupported was skipped
C15_Witness ==
    /\ sideResult.returned /\ ~env.nil /\ env.Client = "unknown" /\ env.Server = "unsupported"
    /\ sideResult.shouldSkip /\ sideResult.side = ""

\* C16: both signals supported give both; client supported and server not
\* supported gives client; server supported and client not supported gives
\* server; none of these is a skip.
C16_SupportedSidesTable ==
    (sideResult.returned /\ ~env.nil) =>
        /\ (Supported(env.Client) /\ Supported(env.Server))
              => (sideResult.side = "both" /\ ~sideResult.shouldSkip)
        /\ (Supported(env.Client) /\ ~Supported(env.Server))
              => (sideResult.side = "client" /\ ~sideResult.shouldSkip)
        /\ (Supported(env.Server) /\ ~Supported(env.Client))
              => (sideResult.side = "server" /\ ~sideResult.shouldSkip)

\* server required with the client unsupported gave server
C16_Witness ==
    /\ sideResult.returned /\ ~env.nil /\ env.Client = "unsupported" /\ env.Server = "required"
    /\ sideResult.side = "server" /\ ~sideResult.shouldSkip

\* C17: a result that is not a skip carries a warning exactly when one of
\* the signals is an unknown value (the literal unknown or a non-empty
\* string other than required, optional, unsupported); the nil environment
\* and absent signals give no warning, a skip carries none, and client
\* required with server unsupported gives client without a warning.
C17_WarningIffUnknownValue ==
    sideResult.returned =>
        /\ ~sideResult.shouldSkip =>
              (sideResult.warning # <<>>
                  <=> (~env.nil /\ (UnknownValue(env.Client) \/ UnknownValue(env.Server))))
        /\ sideResult.shouldSkip => sideResult.warning = <<>>
        /\ (~env.nil /\ env.Client = "required" /\ env.Server = "unsupported")
              => (sideResult.side = "client" /\ ~sideResult.shouldSkip
                  /\ sideResult.warning = <<>>)

\* an unrecognised server signal beside a required client gave a warning
C17_Witness ==
    /\ sideResult.returned /\ ~env.nil /\ env.Client = "required" /\ env.Server = "sometimes"
    /\ ~sideResult.shouldSkip /\ sideResult.warning # <<>>

(***************************************************************************)
(* diff: properties                                                        *)
(***************************************************************************)
IDsOf(list) == {list[i].ProjectID : i \in 1..Len(list)}
OncePerID(list) == \A i, j \in 1..Len(list) : list[i].ProjectID = list[j].ProjectID => i = j
InLocal(p) == currentMods[p].present
InBundle(p) == mrpackMods[p].present

\* C18: once compareMods has run, 'missing' holds exactly one entry for each
\* project ID that is in the bundle map and not in the local map, 'extra'
\* exactly one for each project ID in the local map and not in the bundle
\* map, 'different' exactly one for each project ID in both maps whose
\* version IDs differ; a project in both maps with equal version IDs is in
\* none of the three lists.
C18_CompareModsIsSetDifference ==
    (cmd = "diff" /\ diffOut.compared) =>
        /\ IDsOf(diffOut.missing) = {p \in AllProjects : InBundle(p) /\ ~InLocal(p)}
        /\ IDsOf(diffOut.extra) = {p \in AllProjects : InLocal(p) /\ ~InBundle(p)}
        /\ IDsOf(diffOut.different) =
               {p \in AllProjects : /\ InLocal(p) /\ InBundle(p)
                                    /\ currentMods[p].VersionID # mrpackMods[p].VersionID}
        /\ OncePerID(diffOut.missing) /\ OncePerID(diffOut.extra)
        /\ OncePerID(diffOut.different)
        /\ \A p \in AllProjects :
               (InLocal(p) /\ InBundle(p) /\ currentMods[p].VersionID = mrpackMods[p].VersionID)
                   => p \notin IDsOf(diffOut.missing) \cup IDsOf(diffOut.extra)
                                  \cup IDsOf(diffOut.different)
\* a comparison with entries in all three lists and a project at the same
\* version on both sides
C18_Witness ==
    /\ cmd = "diff" /\ diffOut.compared
    /\ diffOut.missing # <<>> /\ diffOut.extra # <<>> /\ diffOut.different # <<>>
    /\ \E p \in AllProjects : /\ InLocal(p) /\ InBundle(p)
                              /\ currentMods[p].VersionID = mrpackMods[p].VersionID

\* C19: no step of the diff command changes the in-memory index, the index
\* file, the pack file's index hash or a record file, and none writes a file.
C19_DiffIsReadOnly ==
    [][cmd = "diff" => UNCHANGED << index, persisted, packHash, files, wr >>]_vars
\* a diff that ran to its exit against a pack that has records and differs
\* from the bundle
C19_Witness ==
    /\ cmd = "diff" /\ pc = "exited" /\ exitWay = "diffdone"
    /\ installed0 # {} /\ prevOut.different # <<>>
    /\ index = DiffIndex(installed0) /\ files = DiffFiles(installed0)

\* C20: the second run of diff against the same pack, the same bundle and
\* the same catalog answer produces the lists of the first run: same
\* entries, same field values, same order.
C20_DiffTwiceIdentical ==
    (cmd = "diff" /\ run = 2 /\ diffOut.compared) =>
        /\ diffOut.missing = prevOut.missing
        /\ diffOut.extra = prevOut.extra
        /\ diffOut.different = prevOut.different

\* byte-wise lexicographic order on names
RECURSIVE NameLeq(_, _)
NameLeq(a, b) ==
    \/ a = <<>>
    \/ /\ b # <<>>
       /\ \/ Head(a) < Head(b)
          \/ Head(a) = Head(b) /\ NameLeq(Tail(a), Tail(b))
NameSorted(list) ==
    \A i, j \in 1..Len(list) : i < j => NameLeq(list[i].ProjectName, list[j].ProjectName)

\* C21: each of the three lists compareMods returns is in non-decreasing
\* byte-wise (case-sensitive) lexicographic order of ProjectName.
C21_ListsSortedByName ==
    (cmd = "diff" /\ diffOut.compared) =>
        /\ NameSorted(diffOut.missing)
        /\ NameSorted(diffOut.extra)
        /\ NameSorted(diffOut.different)
\* a list in which an upper-case name precedes a lower-case name that comes
\* earlier in the alphabet, and a name precedes its own extension
C21_Witness ==
    /\ cmd = "diff" /\ diffOut.compared
    /\ \E i, j \in 1..Len(diffOut.missing) :
          /\ i < j
          /\ diffOut.missing[i].ProjectName = <<70>>
          /\ diffOut.missing[j].ProjectName = <<100>>
    /\ \E i, j \in 1..Len(diffOut.missing) :
          /\ i < j
          /\ diffOut.missing[i].ProjectName = <<100>>
          /\ diffOut.missing[j].ProjectName = <<100, 97>>

\* the records diff loaded and did not count as Modrinth records
NotTargetCatalog == {pa \in Paths : counted[pa] \in {"curseforge", "url", "other", "none"}}

\* C22: a loaded record that is not counted as a Modrinth record is counted
\* as a direct URL exactly when it has no update table at all, and as another
\* source exactly when it has an update table under a name other than
\* modrinth and curseforge.
C22_UrlAndOtherTally ==
    cmd = "diff" =>
        \A pa \in NotTargetCatalog :
            /\ counted[pa] = "url" <=> files[pa].update = {}
            /\ counted[pa] = "other" <=>
                   (\E key \in files[pa].update : key \notin {"modrinth", "curseforge"})

\* the step in which modify writes the record file (modify.go:180)
ModifyWrites == cmd = "modify" /\ pc = "m_write" /\ pc' = "m_refresh"

\* C23: a record file written by modify has no option block when its option
\* values are optional = false, description = "" and default = false.
C23_DefaultOptionAbsent ==
    [][ModifyWrites =>
          LET o == files'[modPath].option IN
          (~o.optional /\ o.description = "" /\ ~o.default) => ~o.present]_vars

\* C24: the record file modify writes differs from the record it loaded only
\* in the fields whose flags were given: pin, side, disabled client platforms
\* and option keep their loaded values without their flags, and name,
\* filename, download URL and hash, and update data are never changed.
C24_OnlyFlaggedFieldsChange ==
    [][ModifyWrites =>
          LET old == files[modPath]
              new == files'[modPath] IN
          /\ ~flags.pin.changed => new.pin = old.pin
          /\ ~flags.side.changed => new.side = old.side
          /\ ~flags.platforms.changed => new.platforms = old.platforms
          /\ ~optionFlagGiven(flags) => new.option = old.option
          /\ new.name = old.name /\ new.filename = old.filename
          /\ new.url = old.url /\ new.dlFormat = old.dlFormat /\ new.dlHash = old.dlHash
          /\ new.update = old.update /\ new.project = old.project
          /\ new.version = old.version]_vars
\* a modify that was given --side and not --pin has written a pinned record
\* whose platforms and update data are those it loaded
C24_Witness ==
    /\ cmd = "modify" /\ exitWay = "modified"
    /\ flags.side.changed /\ ~flags.pin.changed /\ ~flags.platforms.changed
    /\ files[modPath].pin /\ files[modPath].side = "server"
    /\ files[modPath].platforms = <<"windows">>
    /\ files[modPath].update = {"modrinth"} /\ files[modPath].name = NameOf(1)

(***************************************************************************)
(* validate: properties                                                    *)
(***************************************************************************)
ValidateExited == cmd = "validate" /\ pc = "exited"

\* C25: validate exits with code 1 exactly when it recorded at least one
\* error or could not load the pack or the index; a run that recorded only
\* warnings, or nothing, exits with code 0.
C25_ExitCodeIffErrors ==
    ValidateExited =>
        /\ exitCode \in {0, 1}
        /\ exitCode = 1 <=> (issues > 0 \/ exitWay = "loadfail")
\* a run that recorded warnings and no error has exited with code 0
C25_Witness ==
    /\ ValidateExited /\ exitWay = "validated"
    /\ warnings > 0 /\ issues = 0 /\ exitCode = 0

\* an Index entry whose hash is not the hash of the file now at its path
HashMismatch(pa) ==
    /\ index[pa].present
    /\ \/ files[pa].kind = "absent"
       \/ index[pa].hash # Digest(files[pa])

\* C26: when some Index entry's hash differs from the hash of the file at
\* its path, validate reports an error (one of its checks, or the failure to
\* load the pack) and exits with a non-zero code.
C26_DetectsHashMismatch ==
    (ValidateExited /\ \E pa \in Paths : HashMismatch(pa)) =>
        /\ issues > 0 \/ exitWay = "loadfail"
        /\ exitCode # 0

(***************************************************************************)
(* import: the signal listener and failed writes                           *)
(***************************************************************************)
\* the process was ended by the signal goroutine's os.Exit(0)
SignalExit == cmd = "import" /\ pc = "exited" /\ exitWay = "signal"
\* a record file this batch wrote
WrittenInBatch(pa) == files[pa].kind = "record" /\ files[pa] # InitFiles(installed0)[pa]

\* C27: when the import process is ended by SIGINT/SIGTERM and no write has
\* failed, every record file written in this batch has its entry, with the
\* hash of the file, in the persisted Index.
C27_SignalExitNeverSplitsInstall ==
    (SignalExit /\ faults = 0) =>
        \A pa \in Paths :
            WrittenInBatch(pa) =>
                persisted[pa].present /\ persisted[pa].hash = Digest(files[pa])

\* the main loop refreshes an Index entry or runs its checkpoint or its
\* final Index write
MainTouchesIndex == cmd = "import" /\ pc \in {"refresh", "checkpoint", "final"} /\ pc' # pc
\* the signal goroutine runs saveProgress
ListenerSaves == cmd = "import" /\ sig = "saving" /\ sig' = "saved"

\* C28: the signal goroutine's saveProgress and the main loop's Index
\* accesses exclude each other: the main loop takes no step that refreshes
\* or writes the Index once the goroutine has received the signal and not
\* yet finished saveProgress, and the goroutine does not run saveProgress
\* when the main loop is between a record write and its Index refresh or
\* at its checkpoint or final write.
C28_IndexAccessedByOneThread ==
    [][/\ ~(sig = "saving" /\ MainTouchesIndex)
       /\ ~(ListenerSaves /\ pc \in {"refresh", "checkpoint", "final"})]_vars

\* the step in which Mod.Write fails or an earlier step of the install fails
ImportWriteFails ==
    cmd = "import" /\ pc = "fetched2" /\ pc' # pc /\ lastCall.res = "ok" /\ faults' > faults
ModifyWriteFails == cmd = "modify" /\ pc = "m_write" /\ pc' # pc /\ faults' > faults

\* C29: a failing record write leaves the in-memory Index unchanged and the
\* artifact not counted as installed: in import the success count stays, the
\* reference is a failure and no Index refresh follows; modify exits with
\* code 1 without refreshing or writing the Index. The Index changes only in
\* the refresh step that follows a successful write.
C29_IndexMutatedOnlyAfterWrite ==
    [][/\ ImportWriteFails =>
            /\ index' = index /\ successCount' = successCount
            /\ outcome'[cur] = "failed" /\ pc' # "refresh"
       /\ ModifyWriteFails =>
            /\ index' = index /\ persisted' = persisted /\ packHash' = packHash
            /\ pc' = "exited" /\ exitCode' = 1
       /\ index' # index =>
            /\ pc \in {"refresh", "m_refresh"}
            /\ files[IF cmd = "import" THEN MetaPath(ProjOf(cur)) ELSE modPath].kind = "record"
            /\ wr = ModWrite(files[IF cmd = "import" THEN MetaPath(ProjOf(cur)) ELSE modPath])]_vars
\* an import whose record write failed midway: the file is torn, the
\* reference is a failure and the Index has no entry for the path
C29_Witness ==
    /\ cmd = "import"
    /\ \E h \in AllHashes :
         /\ outcome[h] = "failed"
         /\ files[MetaPath(ProjOf(h))] = TornFile
         /\ ~index[MetaPath(ProjOf(h))].present
         /\ successCount = 0

\* C30: no two references installed in one batch share a project ID, so the
\* number of installs equals the number of distinct record paths the batch
\* wrote and refreshed.
C30_ProjectInstalledAtMostOnce ==
    cmd = "import" =>
        /\ \A h1, h2 \in Installed : ProjOf(h1) = ProjOf(h2) => h1 = h2
        /\ successCount = Cardinality({MetaPath(ProjOf(h)) : h \in Installed})

====
